---- MODULE Spec2Model ----
(***************************************************************************)
(* Room game engine of the party game server: the rooms map, the per-room  *)
(* state machine LOBBY / ANSWERING / REVEAL / SCOREBOARD, the relaxed text *)
(* matcher, scoring, and the host and player snapshots.                    *)
(*                                                                         *)
(* A JavaScript string is a sequence of one-character strings, so that     *)
(* trimming, slicing, normalising and substring search are computed.       *)
(***************************************************************************)
EXTENDS Integers, Sequences, FiniteSets, TLC

VARIABLES
    rooms,      \* the rooms Map: room code -> room
    sockets,    \* socket id -> [alive, roomCode, playerId] (socket.data)
    scoredLog,  \* history: every <<room code, score key>> evaluated so far
    pushed,     \* room code -> the last "roomState" messages emitted to the
                \* room's host channel and to its player channel
    shown       \* history: room code -> the prompts presented since the
                \* room's last start round, in order

vars == <<rooms, sockets, scoredLog, pushed, shown>>

NULL == "null"

(***************************************************************************)
(* Program constants                                                       *)
(***************************************************************************)
MAX_PLAYERS == 6
MAX_PLAYERS_DATING == 2
MAX_NAME_LEN == 24
MAX_TEXT_LEN == 80
MIN_SUB == 4

(***************************************************************************)
(* Bounds of the model                                                     *)
(***************************************************************************)
\* QUESTIONS_PER_ROUND is 10 in the source; the model plays shorter rounds.
QUESTIONS_PER_ROUND == 2
\* Rounds a room may complete (game.round grows without limit in the source).
MaxRound == 2

(***************************************************************************)
(* Characters and strings                                                  *)
(***************************************************************************)
LowerChars == {"a","b","c","d","e","f","g","h","i","j","k","l","m",
               "n","o","p","q","r","s","t","u","v","w","x","y","z"}
DigitChars == {"0","1","2","3","4","5","6","7","8","9"}
WhiteChars == {" ", "\t", "\n"}

\* String.prototype.toLowerCase, one character
ToLowerChar(c) ==
    CASE c = "A" -> "a" [] c = "B" -> "b" [] c = "C" -> "c" [] c = "D" -> "d"
      [] c = "E" -> "e" [] c = "F" -> "f" [] c = "G" -> "g" [] c = "H" -> "h"
      [] c = "I" -> "i" [] c = "J" -> "j" [] c = "K" -> "k" [] c = "L" -> "l"
      [] c = "M" -> "m" [] c = "N" -> "n" [] c = "O" -> "o" [] c = "P" -> "p"
      [] c = "Q" -> "q" [] c = "R" -> "r" [] c = "S" -> "s" [] c = "T" -> "t"
      [] c = "U" -> "u" [] c = "V" -> "v" [] c = "W" -> "w" [] c = "X" -> "x"
      [] c = "Y" -> "y" [] c = "Z" -> "z" [] c = "É" -> "é" [] c = "Ë" -> "ë"
      [] c = "Ï" -> "ï" [] c = "Ö" -> "ö" [] c = "Ü" -> "ü"
      [] OTHER -> c

\* str.normalize("NFD") followed by the removal of the combining marks
\* (U+0300..U+036F), one character: the canonical decomposition is the base
\* letter followed by its mark, and the mark is removed
StripDiacriticsChar(c) ==
    CASE c = "é" -> "e" [] c = "è" -> "e" [] c = "ë" -> "e" [] c = "ê" -> "e"
      [] c = "ï" -> "i" [] c = "í" -> "i" [] c = "ö" -> "o" [] c = "ó" -> "o"
      [] c = "ü" -> "u" [] c = "ú" -> "u" [] c = "á" -> "a" [] c = "à" -> "a"
      [] c = "É" -> "E" [] c = "Ë" -> "E" [] c = "Ï" -> "I" [] c = "Ö" -> "O"
      [] c = "Ü" -> "U"
      [] OTHER -> c

toLowerCase(s) == [i \in 1..Len(s) |-> ToLowerChar(s[i])]

stripDiacritics(s) == [i \in 1..Len(s) |-> StripDiacriticsChar(s[i])]

\* s.replace(/[^a-z0-9\s]/g, " ")
PunctToSpaceChar(c) ==
    IF c \in LowerChars \cup DigitChars \cup WhiteChars THEN c ELSE " "

RECURSIVE TrimLeft(_)
TrimLeft(s) ==
    IF s # <<>> /\ Head(s) \in WhiteChars THEN TrimLeft(Tail(s)) ELSE s

RECURSIVE TrimRight(_)
TrimRight(s) ==
    IF s # <<>> /\ s[Len(s)] \in WhiteChars
    THEN TrimRight(SubSeq(s, 1, Len(s) - 1)) ELSE s

\* String.prototype.trim
trim(s) == TrimRight(TrimLeft(s))

\* mutant: the cut keeps one character more
slice0Wide(s, n) == SubSeq(s, 1, IF Len(s) < n + 1 THEN Len(s) ELSE n + 1)

\* String.prototype.slice(0, n)
slice0(s, n) == SubSeq(s, 1, IF Len(s) < n THEN Len(s) ELSE n)

\* s.replace(/\s+/g, " "): every maximal run of whitespace becomes one space
RECURSIVE CollapseWhite(_)
CollapseWhite(s) ==
    IF s = <<>> THEN <<>>
    ELSE IF Head(s) \in WhiteChars
         THEN <<" ">> \o CollapseWhite(TrimLeft(s))
         ELSE <<Head(s)>> \o CollapseWhite(Tail(s))

normalizeAnswer(str) ==
    LET s1 == toLowerCase(str)
        s2 == stripDiacritics(s1)
        s3 == [i \in 1..Len(s2) |-> PunctToSpaceChar(s2[i])]
    IN  trim(CollapseWhite(s3))

\* s.split(" ") of a non-empty string
RECURSIVE SplitSpace(_, _)
SplitSpace(s, cur) ==
    IF s = <<>> THEN <<cur>>
    ELSE IF Head(s) = " "
         THEN <<cur>> \o SplitSpace(Tail(s), <<>>)
         ELSE SplitSpace(Tail(s), Append(cur, Head(s)))

STOPWORDS_NL ==
    { <<"d","e">>, <<"h","e","t">>, <<"e","e","n">>, <<"e","n">>, <<"o","f">>,
      <<"m","a","a","r">>, <<"i","k">>, <<"j","i","j">>, <<"j","e">>, <<"u">>,
      <<"w","e">>, <<"w","i","j">>, <<"j","u","l","l","i","e">>,
      <<"h","i","j">>, <<"z","i","j">>, <<"z","e">>,
      <<"m","i","j","n">>, <<"j","o","u","w">>, <<"z","i","j","n">>,
      <<"h","a","a","r">>, <<"o","n","z","e">>, <<"h","u","n">>,
      <<"n","a","a","r">>, <<"v","a","n">>, <<"v","o","o","r">>,
      <<"m","e","t">>, <<"z","o","n","d","e","r">>, <<"o","p">>, <<"i","n">>,
      <<"u","i","t">>,
      <<"d","i","e">>, <<"d","a","t">>, <<"d","i","t">>, <<"d","a","a","r">>,
      <<"h","i","e","r">>, <<"n","o","g">>, <<"e","e","n","s">>,
      <<"e","c","h","t">>, <<"h","e","e","l">>, <<"v","e","e","l">>,
      <<"a","l","t","i","j","d">>, <<"n","o","o","i","t">> }

\* the tokens kept by tokenize, as the set the matcher builds from them
tokenize(str) ==
    LET s == normalizeAnswer(str)
        parts == IF s = <<>> THEN <<>> ELSE SplitSpace(s, <<>>)
    IN  { trim(parts[i]) : i \in { j \in 1..Len(parts) :
              Len(trim(parts[j])) >= 2 /\ trim(parts[j]) \notin STOPWORDS_NL } }

\* String.prototype.includes
includes(hay, needle) ==
    \E i \in 0..(Len(hay) - Len(needle)) :
        SubSeq(hay, i + 1, i + Len(needle)) = needle

\* mutant: containment is tested in one direction only
computeMatchOneWay(a, b) ==
    LET na == normalizeAnswer(a)
        nb == normalizeAnswer(b)
        setA == tokenize(na)
        setB == tokenize(nb)
        inter == Cardinality(setA \cap setB)
        union == Cardinality(setA \cup setB)
    IN  IF na = <<>> \/ nb = <<>> THEN FALSE
        ELSE IF na = nb THEN TRUE
        ELSE IF Len(na) >= MIN_SUB /\ includes(nb, na) THEN TRUE
        ELSE IF setA = {} \/ setB = {} THEN FALSE
        ELSE 5 * inter >= 3 * union

\* mutant: the similarity has to exceed 0.6
computeMatchStrict(a, b) ==
    LET na == normalizeAnswer(a)
        nb == normalizeAnswer(b)
        setA == tokenize(na)
        setB == tokenize(nb)
        inter == Cardinality(setA \cap setB)
        union == Cardinality(setA \cup setB)
    IN  IF na = <<>> \/ nb = <<>> THEN FALSE
        ELSE IF na = nb THEN TRUE
        ELSE IF Len(na) >= MIN_SUB /\ includes(nb, na) THEN TRUE
        ELSE IF Len(nb) >= MIN_SUB /\ includes(na, nb) THEN TRUE
        ELSE IF setA = {} \/ setB = {} THEN FALSE
        ELSE 5 * inter > 3 * union

computeMatchRelaxed(a, b) ==
    LET na == normalizeAnswer(a)
        nb == normalizeAnswer(b)
        setA == tokenize(na)
        setB == tokenize(nb)
        inter == Cardinality(setA \cap setB)
        union == Cardinality(setA \cup setB)
    IN  IF na = <<>> \/ nb = <<>> THEN FALSE
        ELSE IF na = nb THEN TRUE
        ELSE IF Len(na) >= MIN_SUB /\ includes(nb, na) THEN TRUE
        ELSE IF Len(nb) >= MIN_SUB /\ includes(na, nb) THEN TRUE
        ELSE IF setA = {} \/ setB = {} THEN FALSE
        \* inter / union >= 0.6, in integers
        ELSE 5 * inter >= 3 * union

(***************************************************************************)
(* Inputs of the model                                                     *)
(***************************************************************************)
\* THEMES: theme name -> its prompts (the first two prompts of each theme)
THEMES ==
    ("default" :> << "Ooit wil ik nog eens op vakantie naar ...",
                     "Als ik nog een keuken mag kiezen, dan kies ik ..." >>) @@
    ("holidays" :> << "Mijn favoriete vakantiebestemming is ...",
                      "Op vakantie kan ik echt niet zonder ..." >>) @@
    ("18+" :> << "Ik heb ooit een threesome gehad",
                 "Ik heb ooit seks gehad in het openbaar" >>) @@
    ("dating" :> << "Mijn ideale date is ...",
                    "Het belangrijkste in een relatie is ..." >>) @@
    ("friendgroup" :> << "Met mijn vrienden kan ik altijd ...",
                         "Mijn favoriete vriendengroep activiteit is ..." >>) @@
    ("work" :> << "Mijn favoriete werkdag is ...",
                  "Het beste aan mijn werk is ..." >>)

\* codes generateRoomCode can return, and the codes events carry
RoomCodes == {"ROOMAA"}
CodeInputs == {"roomaa", "NOROOM"}
KnownCode == "roomaa"
UnknownCode == "NOROOM"
ThemeInputs == {"default", "dating", "bogus"}

SocketIds == {"s1", "s2", "s3"}
\* ids "p_" + Math.random().toString(36).slice(2, 9) can return
PlayerIds == {"p_a", "p_b", "p_c"}
UnknownId == "p_zz"
\* the id drawn when a socket joins: a session joins once and draws a fresh id
IdOf == [s \in SocketIds |->
            CASE s = "s1" -> "p_a" [] s = "s2" -> "p_b" [] s = "s3" -> "p_c"]
\* sockets are interchangeable: they are numbered in the order they join
Before(s) == CASE s = "s1" -> {} [] s = "s2" -> {"s1"} [] s = "s3" -> {"s1", "s2"}
MayJoin(s) ==
    /\ sockets[s].playerId = NULL
    /\ \A b \in Before(s) : sockets[b].playerId # NULL

NameInputs == { <<" ", "A", "n", " ">>, <<" ", " ">> }

TextKat == <<"K", "a", "t">>
TextKatGuess == <<" ", "k", "a", "t", "!">>
\* rawPredicts: a predicts payload that is absent or no object reads as {};
\* otherwise a guess for every id (the sender's own id and ids that are not
\* players included)
SubmitInputs ==
    { [self |-> TextKat,
       predicts |-> [i \in PlayerIds \cup {UnknownId} |-> TextKatGuess]],
      [self |-> <<>>, predicts |-> << >>] }

\* String(code || "").toUpperCase()
toUpperCase(code) ==
    CASE code = "roomaa" -> "ROOMAA"
      [] code = "roombb" -> "ROOMBB"
      [] OTHER -> code

(***************************************************************************)
(* The players Map of a room: a sequence of player records, in insertion   *)
(* order                                                                   *)
(***************************************************************************)
Range(f) == { f[x] : x \in DOMAIN f }

playerKeys(room) == [i \in 1..Len(room.players) |-> room.players[i].id]

playersHas(room, id) == \E i \in 1..Len(room.players) : room.players[i].id = id

playersGet(room, id) ==
    room.players[CHOOSE i \in 1..Len(room.players) : room.players[i].id = id]

\* Map.prototype.set: a new key is appended, an existing key keeps its place
playersSet(players, p) ==
    IF \E i \in 1..Len(players) : players[i].id = p.id
    THEN [i \in 1..Len(players) |->
              IF players[i].id = p.id THEN p ELSE players[i]]
    ELSE Append(players, p)

\* all orders shuffle(arr) can return
shuffle(arr) ==
    { [i \in 1..Len(arr) |-> arr[f[i]]] :
        f \in { g \in [1..Len(arr) -> 1..Len(arr)] :
                    \A i, j \in 1..Len(arr) : g[i] = g[j] => i = j } }

\* mutant: the dating limit is not applied
maxPlayersOfAny(room) == MAX_PLAYERS

maxPlayersOf(room) ==
    IF room.theme = "dating" THEN MAX_PLAYERS_DATING ELSE MAX_PLAYERS

\* names every object literal answers to besides its own keys: THEMES[name]
\* is then a function or object inherited from Object.prototype
INHERITED ==
    { "constructor", "toString", "toLocaleString", "valueOf", "hasOwnProperty",
      "isPrototypeOf", "propertyIsEnumerable", "__proto__" }

\* THEMES[theme] is truthy
themeFound(theme) == theme \in DOMAIN THEMES \cup INHERITED

\* what THEMES[name] is for an inherited name: no array, [...arr] throws on it
NotIterable == <<"[object]">>

\* mutant: the lookup of the theme fails for the theme dating
themePromptsOfDefault(room) ==
    IF room.theme \in DOMAIN THEMES \ {"dating"} THEN THEMES[room.theme]
    ELSE IF room.theme \in INHERITED THEN NotIterable
    ELSE THEMES["default"]

\* THEMES[room.theme] || THEMES.default
themePromptsOf(room) ==
    IF room.theme \in DOMAIN THEMES THEN THEMES[room.theme]
    ELSE IF room.theme \in INHERITED THEN NotIterable
    ELSE THEMES["default"]

newRoom(code, theme) ==
    [ code |-> code,
      theme |-> IF themeFound(theme) THEN theme ELSE "default",
      players |-> <<>>,
      game |-> [ state |-> "LOBBY",
                 round |-> 1,
                 question |-> 0,
                 questionsPerRound |-> QUESTIONS_PER_ROUND,
                 prompt |-> NULL,
                 promptPool |-> <<>>,
                 submissions |-> << >>,
                 revealOrder |-> <<>>,
                 revealIndex |-> 0,
                 matchMap |-> << >>,
                 scoredPairs |-> {} ] ]

\* mutant: a code that matches no room resolves to some room
getRoomLoose(code) ==
    IF toUpperCase(code) \in DOMAIN rooms THEN toUpperCase(code)
    ELSE IF DOMAIN rooms # {} THEN CHOOSE c \in DOMAIN rooms : TRUE
    ELSE NULL

\* rooms.get(String(code || "").toUpperCase()): the room's code, or NULL
getRoom(code) ==
    IF toUpperCase(code) \in DOMAIN rooms THEN toUpperCase(code) ELSE NULL

\* mutant: a reveal order that exists is kept
startNewQuestionKeepOrder(room, refill) ==
    LET pool == IF room.game.promptPool = <<>> THEN refill
                ELSE room.game.promptPool
    IN  [room EXCEPT !.game.promptPool = Tail(pool),
                     !.game.prompt = Head(pool),
                     !.game.state = "ANSWERING",
                     !.game.submissions = << >>,
                     !.game.revealOrder =
                         IF @ = <<>> THEN playerKeys(room) ELSE @,
                     !.game.revealIndex = 0,
                     !.game.matchMap = << >>,
                     !.game.scoredPairs = {}]

\* mutant: the prompt is read from the pool and left in it
startNewQuestionNoShift(room, refill) ==
    LET pool == IF room.game.promptPool = <<>> THEN refill
                ELSE room.game.promptPool
    IN  [room EXCEPT !.game.promptPool = pool,
                     !.game.prompt = Head(pool),
                     !.game.state = "ANSWERING",
                     !.game.submissions = << >>,
                     !.game.revealOrder = playerKeys(room),
                     !.game.revealIndex = 0,
                     !.game.matchMap = << >>,
                     !.game.scoredPairs = {}]

\* startNewQuestion; refill is the order shuffle returns if the pool is empty
startNewQuestion(room, refill) ==
    LET pool == IF room.game.promptPool = <<>> THEN refill
                ELSE room.game.promptPool
    IN  [room EXCEPT !.game.promptPool = Tail(pool),
                     !.game.prompt = Head(pool),
                     !.game.state = "ANSWERING",
                     !.game.submissions = << >>,
                     !.game.revealOrder = playerKeys(room),
                     !.game.revealIndex = 0,
                     !.game.matchMap = << >>,
                     !.game.scoredPairs = {}]

\* room.game.submissions?.[id]?.self ?? ""
selfOf(room, id) ==
    IF id \in DOMAIN room.game.submissions
    THEN room.game.submissions[id].self ELSE <<>>

\* room.game.submissions?.[predictorId]?.predicts?.[targetId] ?? ""
predictedOf(room, predictorId, targetId) ==
    IF /\ predictorId \in DOMAIN room.game.submissions
       /\ targetId \in DOMAIN room.game.submissions[predictorId].predicts
    THEN room.game.submissions[predictorId].predicts[targetId] ELSE <<>>

\* playersArray: the public fields of every player, in insertion order
playersArray(room) ==
    [i \in 1..Len(room.players) |->
        [ id |-> room.players[i].id,
          name |-> room.players[i].name,
          ready |-> room.players[i].ready,
          connected |-> room.players[i].connected,
          score |-> room.players[i].score ]]

\* the revealData of the host snapshot while the phase is REVEAL;
\* order[idx] past the end of the reveal order is undefined (NULL here)
revealDataOf(room) ==
    LET order == room.game.revealOrder
        idx == room.game.revealIndex
        targetId == IF idx + 1 \in DOMAIN order THEN order[idx + 1] ELSE NULL
        players == playersArray(room)
        others == SelectSeq(players, LAMBDA p : p.id # targetId)
    IN  [ targetId |-> targetId,
          targetName |-> IF playersHas(room, targetId)
                         THEN playersGet(room, targetId).name ELSE <<>>,
          targetAnswer |-> selfOf(room, targetId),
          predictors |-> [i \in 1..Len(others) |->
              [ predictorId |-> others[i].id,
                predictorName |-> others[i].name,
                predicted |-> predictedOf(room, others[i].id, targetId),
                match |-> IF /\ targetId \in DOMAIN room.game.matchMap
                             /\ others[i].id \in
                                    DOMAIN room.game.matchMap[targetId]
                          THEN room.game.matchMap[targetId][others[i].id]
                          ELSE FALSE ]] ]

\* revealData: null is the empty record
NoRevealData == << >>

\* the fields of every snapshot
snapshotBase(room) ==
    [ roomCode |-> room.code,
      theme |-> room.theme,
      maxPlayers |-> maxPlayersOf(room),
      state |-> room.game.state,
      players |-> playersArray(room),
      round |-> room.game.round,
      question |-> room.game.question,
      questionsPerRound |-> room.game.questionsPerRound,
      submissionsCount |-> Cardinality(DOMAIN room.game.submissions),
      revealOrder |-> room.game.revealOrder,
      revealIndex |-> room.game.revealIndex ]

\* mutant: the reveal payload is still sent on the scoreboard
snapshotHostExtraLate(room) ==
    [ prompt |-> room.game.prompt,
      revealData |-> IF room.game.state \in {"REVEAL", "SCOREBOARD"}
                     THEN revealDataOf(room) ELSE NoRevealData,
      submittedIds |-> DOMAIN room.game.submissions ]

\* the fields only the host snapshot has
snapshotHostExtra(room) ==
    [ prompt |-> room.game.prompt,
      revealData |-> IF room.game.state = "REVEAL"
                     THEN revealDataOf(room) ELSE NoRevealData,
      submittedIds |-> DOMAIN room.game.submissions ]

\* mutant: every viewer gets the host's fields
snapshotLeaky(room, isHost) == snapshotHostExtra(room) @@ snapshotBase(room)

snapshot(room, isHost) ==
    IF ~isHost THEN snapshotBase(room)
    ELSE snapshotHostExtra(room) @@ snapshotBase(room)

\* the two messages emitRoom sends, built from the room as it is when
\* emitRoom runs
roomStates(room) ==
    [host |-> snapshot(room, TRUE), player |-> snapshot(room, FALSE)]

\* mutant: the messages are built from the room as it was when the event
\* arrived
emitRoomStale(c) ==
    pushed' = (c :> roomStates(rooms[c])) @@ pushed

\* emitRoom(roomCode), the last statement of a handler
emitRoom(c) ==
    pushed' = (c :> roomStates(rooms'[c])) @@ pushed

(***************************************************************************)
(* State after construction: no room, every socket connected and unbound   *)
(***************************************************************************)
Init ==
    /\ rooms = << >>
    /\ sockets = [s \in SocketIds |->
                      [alive |-> TRUE, roomCode |-> NULL, playerId |-> NULL]]
    /\ scoredLog = {}
    /\ pushed = << >>
    /\ shown = << >>

\* GET /host: createRoom(req.query.theme || "default")
\* mutant: the drawn code is not compared with the codes in use
createRoomInAny(codes, theme) ==
    /\ \E code \in codes :
          rooms' = (code :> newRoom(code, theme)) @@ rooms
    /\ UNCHANGED <<sockets, pushed>>

\* codes is the set of codes generateRoomCode can return
createRoomIn(codes, theme) ==
    /\ \E code \in codes \ DOMAIN rooms :
          rooms' = (code :> newRoom(code, theme)) @@ rooms
    /\ UNCHANGED <<sockets, pushed>>

createRoom(theme) == createRoomIn(RoomCodes, theme)

\* an early return of a handler
NoOp == UNCHANGED <<rooms, sockets, pushed>>

\* an exception no handler catches: the process exits, the rooms are gone and
\* every connection is closed
Crash ==
    /\ rooms' = << >>
    /\ sockets' = [s \in DOMAIN sockets |-> [sockets[s] EXCEPT !.alive = FALSE]]
    /\ pushed' = << >>

\* socket.on("joinRoom")
\* id is the value of "p_" + Math.random().toString(36).slice(2, 9)
joinRoom(s, codeIn, name, id) ==
    LET c == getRoom(codeIn)
        trimmed == slice0(trim(name), MAX_NAME_LEN)
    IN  /\ sockets[s].alive
        /\ IF c = NULL THEN NoOp
           ELSE IF Len(rooms[c].players) >= maxPlayersOf(rooms[c]) THEN NoOp
           ELSE IF trimmed = <<>> THEN NoOp
           ELSE /\ rooms' = [rooms EXCEPT ![c].players =
                      playersSet(@, [ id |-> id,
                                      name |-> trimmed,
                                      ready |-> FALSE,
                                      connected |-> TRUE,
                                      score |-> 0,
                                      socketId |-> s ])]
                /\ sockets' = [sockets EXCEPT ![s].roomCode = c,
                                              ![s].playerId = id]
                /\ emitRoom(c)

\* mutant: the session that sends the event is not compared with the player's
setReadyAnySession(s, codeIn, playerId, ready) ==
    LET c == getRoom(codeIn)
    IN  /\ sockets[s].alive
        /\ IF c = NULL THEN NoOp
           ELSE IF ~playersHas(rooms[c], playerId) THEN NoOp
           ELSE /\ rooms' = [rooms EXCEPT ![c].players =
                                 playersSet(@, [playersGet(rooms[c], playerId)
                                                   EXCEPT !.ready = ready])]
                /\ UNCHANGED sockets
                /\ emitRoom(c)

\* socket.on("setReady")
setReady(s, codeIn, playerId, ready) ==
    LET c == getRoom(codeIn)
    IN  /\ sockets[s].alive
        /\ IF c = NULL THEN NoOp
           ELSE IF ~playersHas(rooms[c], playerId) THEN NoOp
           ELSE IF playersGet(rooms[c], playerId).socketId # s THEN NoOp
           ELSE /\ rooms' = [rooms EXCEPT ![c].players =
                                 playersSet(@, [playersGet(rooms[c], playerId)
                                                   EXCEPT !.ready = ready])]
                /\ UNCHANGED sockets
                /\ emitRoom(c)

\* mutant: one connected player is enough
canStartGameAlone(room) ==
    LET connected == { i \in 1..Len(room.players) : room.players[i].connected }
    IN  /\ Cardinality(connected) >= 1
        /\ \A i \in connected : room.players[i].ready

\* the guard of hostStartGame: at least 2 connected players, all of them ready
canStartGame(room) ==
    LET connected == { i \in 1..Len(room.players) : room.players[i].connected }
    IN  /\ Cardinality(connected) >= 2
        /\ \A i \in connected : room.players[i].ready

\* mutant: the scores are carried into the new round
startGameKeepScores(room, pool) ==
    LET r1 == [room EXCEPT !.game.question = 1,
                           !.game.questionsPerRound = QUESTIONS_PER_ROUND,
                           !.game.promptPool = pool]
    IN  startNewQuestion(r1, pool)

\* the body of hostStartGame once its guard passed; pool is shuffle's result
startGame(room, pool) ==
    LET reset == [i \in 1..Len(room.players) |->
                      [room.players[i] EXCEPT !.score = 0]]
        r1 == [room EXCEPT !.players = reset,
                           !.game.question = 1,
                           !.game.questionsPerRound = QUESTIONS_PER_ROUND,
                           !.game.promptPool = pool]
    IN  startNewQuestion(r1, pool)

\* socket.on("hostStartGame")
hostStartGame(codeIn) ==
    LET c == getRoom(codeIn)
    IN  IF c = NULL THEN NoOp
        ELSE IF ~canStartGame(rooms[c]) THEN NoOp
        ELSE IF themePromptsOf(rooms[c]) = NotIterable THEN Crash
        ELSE \E pool \in shuffle(themePromptsOf(rooms[c])) :
               /\ rooms' = [rooms EXCEPT ![c] = startGame(@, pool)]
               /\ UNCHANGED sockets
               /\ emitRoom(c)

\* String(val || "").trim().slice(0, 80)
cleanText(t) == slice0(trim(t), MAX_TEXT_LEN)

\* mutant: guesses are kept whatever their target id
cleanPredictsOfAll(room, rawPredicts) ==
    [i \in DOMAIN rawPredicts |-> cleanText(rawPredicts[i])]

\* mutant: only guesses for players who have already submitted are kept
cleanPredictsOfSubmitted(room, rawPredicts) ==
    [i \in { k \in DOMAIN rawPredicts : k \in DOMAIN room.game.submissions } |->
        cleanText(rawPredicts[i])]

\* cleanPredicts: the guesses for ids that are players of the room
cleanPredictsOf(room, rawPredicts) ==
    [i \in { k \in DOMAIN rawPredicts : playersHas(room, k) } |->
        cleanText(rawPredicts[i])]

\* `r${round}q${question}:${predictorId}->${targetId}`
scoreKey(room, predictorId, targetId) ==
    <<room.game.round, room.game.question, predictorId, targetId>>

\* mutant: every player of the room is a predictor
buildMatchMapPlayers(room) ==
    LET order == Range(room.game.revealOrder)
    IN  [t \in order |-> [p \in Range(playerKeys(room)) \ {t} |->
            computeMatchRelaxed(selfOf(room, t), predictedOf(room, p, t))]]

\* matchMap[targetId][predictorId] for every ordered pair of the reveal order
buildMatchMap(room) ==
    LET order == Range(room.game.revealOrder)
    IN  [t \in order |-> [p \in order \ {t} |->
            computeMatchRelaxed(selfOf(room, t), predictedOf(room, p, t))]]

\* mutant: a point for every pair, matched or not
awardedPairsAll(room, matchMap) ==
    LET order == Range(room.game.revealOrder)
    IN  { pt \in order \X order :
            /\ pt[1] # pt[2]
            /\ scoreKey(room, pt[1], pt[2]) \notin room.game.scoredPairs }

\* the pairs the scoring loop awards a point for
awardedPairs(room, matchMap) ==
    LET order == Range(room.game.revealOrder)
    IN  { pt \in order \X order :
            /\ pt[1] # pt[2]
            /\ scoreKey(room, pt[1], pt[2]) \notin room.game.scoredPairs
            /\ matchMap[pt[2]][pt[1]] }

\* the "iedereen submitted?" branch of submitAnswers
completeQuestion(room) ==
    LET order == Range(room.game.revealOrder)
        mm == buildMatchMap(room)
        won == awardedPairs(room, mm)
        scored == [i \in 1..Len(room.players) |->
            [room.players[i] EXCEPT !.score =
                @ + Cardinality({ pt \in won : pt[1] = room.players[i].id })]]
        keys == { scoreKey(room, p, t) : p \in order, t \in order } \
                { scoreKey(room, p, p) : p \in order }
    IN  [room EXCEPT !.players = scored,
                     !.game.matchMap = mm,
                     !.game.scoredPairs = @ \cup keys,
                     !.game.state = "REVEAL",
                     !.game.revealIndex = 0]

\* mutant: completion is detected against the reveal order
storeSubmissionByOrder(room, playerId, self, predicts) ==
    LET sub == [self |-> cleanText(self),
                predicts |-> cleanPredictsOf(room, predicts)]
        r1 == [room EXCEPT !.game.submissions = (playerId :> sub) @@ @]
    IN  IF Cardinality(DOMAIN r1.game.submissions) = Len(r1.game.revealOrder)
        THEN completeQuestion(r1) ELSE r1

\* mutant: the guesses of the player's earlier submission are kept
storeSubmissionMerging(room, playerId, self, predicts) ==
    LET old == IF playerId \in DOMAIN room.game.submissions
               THEN room.game.submissions[playerId].predicts ELSE << >>
        sub == [self |-> cleanText(self),
                predicts |-> cleanPredictsOf(room, predicts) @@ old]
        r1 == [room EXCEPT !.game.submissions = (playerId :> sub) @@ @]
    IN  IF Cardinality(DOMAIN r1.game.submissions) = Len(r1.players)
        THEN completeQuestion(r1) ELSE r1

\* mutant: only the submissions of connected players count toward completion
storeSubmissionConnected(room, playerId, self, predicts) ==
    LET sub == [self |-> cleanText(self),
                predicts |-> cleanPredictsOf(room, predicts)]
        r1 == [room EXCEPT !.game.submissions = (playerId :> sub) @@ @]
        live == { id \in DOMAIN r1.game.submissions :
                    playersGet(r1, id).connected }
    IN  IF Cardinality(live) = Len(r1.players)
        THEN completeQuestion(r1) ELSE r1

\* the body of submitAnswers once its guards passed
storeSubmission(room, playerId, self, predicts) ==
    LET sub == [self |-> cleanText(self),
                predicts |-> cleanPredictsOf(room, predicts)]
        r1 == [room EXCEPT !.game.submissions = (playerId :> sub) @@ @]
    IN  IF Cardinality(DOMAIN r1.game.submissions) = Len(r1.players)
        THEN completeQuestion(r1) ELSE r1

\* mutant: the session that sends the answers is not compared with the
\* player's
submitAnswersAnySession(s, codeIn, playerId, self, predicts) ==
    LET c == getRoom(codeIn)
    IN  /\ sockets[s].alive
        /\ IF c = NULL THEN NoOp
           ELSE IF rooms[c].game.state # "ANSWERING" THEN NoOp
           ELSE IF ~playersHas(rooms[c], playerId) THEN NoOp
           ELSE /\ rooms' = [rooms EXCEPT ![c] =
                                 storeSubmission(@, playerId, self, predicts)]
                /\ UNCHANGED sockets
                /\ emitRoom(c)

\* socket.on("submitAnswers")
submitAnswers(s, codeIn, playerId, self, predicts) ==
    LET c == getRoom(codeIn)
    IN  /\ sockets[s].alive
        /\ IF c = NULL THEN NoOp
           ELSE IF rooms[c].game.state # "ANSWERING" THEN NoOp
           ELSE IF ~playersHas(rooms[c], playerId) THEN NoOp
           ELSE IF playersGet(rooms[c], playerId).socketId # s THEN NoOp
           ELSE /\ rooms' = [rooms EXCEPT ![c] =
                                 storeSubmission(@, playerId, self, predicts)]
                /\ UNCHANGED sockets
                /\ emitRoom(c)

\* mutant: the cursor may pass the end of the reveal order by one
nextRevealLate(room) ==
    LET r1 == [room EXCEPT !.game.revealIndex = @ + 1]
    IN  IF r1.game.revealIndex > Len(r1.game.revealOrder)
        THEN [r1 EXCEPT !.game.state = "SCOREBOARD"] ELSE r1

\* mutant: the cursor stops at the last target and the phase stays REVEAL
nextRevealStuck(room) ==
    IF room.game.revealIndex + 1 >= Len(room.game.revealOrder)
    THEN room
    ELSE [room EXCEPT !.game.revealIndex = @ + 1]

\* the body of hostNextReveal once its guard passed
nextReveal(room) ==
    LET r1 == [room EXCEPT !.game.revealIndex = @ + 1]
    IN  IF r1.game.revealIndex >= Len(r1.game.revealOrder)
        THEN [r1 EXCEPT !.game.state = "SCOREBOARD"] ELSE r1

\* socket.on("hostNextReveal")
hostNextReveal(codeIn) ==
    LET c == getRoom(codeIn)
    IN  IF c = NULL THEN NoOp
        ELSE IF rooms[c].game.state # "REVEAL" THEN NoOp
        ELSE /\ rooms' = [rooms EXCEPT ![c] = nextReveal(@)]
             /\ UNCHANGED sockets
             /\ emitRoom(c)

\* mutant: the scores are cleared when the round ends
endRoundResetting(room) ==
    [room EXCEPT !.game.round = @ + 1,
                 !.game.question = 0,
                 !.game.prompt = NULL,
                 !.game.promptPool = <<>>,
                 !.game.submissions = << >>,
                 !.game.revealOrder = <<>>,
                 !.game.revealIndex = 0,
                 !.game.matchMap = << >>,
                 !.game.scoredPairs = {},
                 !.game.state = "LOBBY",
                 !.players = [i \in 1..Len(room.players) |->
                                  [room.players[i] EXCEPT !.ready = FALSE,
                                                          !.score = 0]]]

\* mutant: the question counter is left at the last question
endRoundKeepQuestion(room) ==
    [room EXCEPT !.game.round = @ + 1,
                 !.game.prompt = NULL,
                 !.game.promptPool = <<>>,
                 !.game.submissions = << >>,
                 !.game.revealOrder = <<>>,
                 !.game.revealIndex = 0,
                 !.game.matchMap = << >>,
                 !.game.scoredPairs = {},
                 !.game.state = "LOBBY",
                 !.players = [i \in 1..Len(room.players) |->
                                  [room.players[i] EXCEPT !.ready = FALSE]]]

\* the "ronde klaar" branch of hostNextQuestion
endRound(room) ==
    [room EXCEPT !.game.round = @ + 1,
                 !.game.question = 0,
                 !.game.prompt = NULL,
                 !.game.promptPool = <<>>,
                 !.game.submissions = << >>,
                 !.game.revealOrder = <<>>,
                 !.game.revealIndex = 0,
                 !.game.matchMap = << >>,
                 !.game.scoredPairs = {},
                 !.game.state = "LOBBY",
                 !.players = [i \in 1..Len(room.players) |->
                                  [room.players[i] EXCEPT !.ready = FALSE]]]

\* mutant: the phase is not looked at
canNextQuestionAnyPhase(room) == room.game.state # "ANSWERING"

\* the guard of hostNextQuestion
canNextQuestion(room) == room.game.state = "SCOREBOARD"

\* socket.on("hostNextQuestion"); the model stops a room after MaxRound rounds
hostNextQuestion(codeIn) ==
    LET c == getRoom(codeIn)
    IN  IF c = NULL THEN NoOp
        ELSE IF ~canNextQuestion(rooms[c]) THEN NoOp
        ELSE IF rooms[c].game.question < rooms[c].game.questionsPerRound
        THEN \E refill \in shuffle(themePromptsOf(rooms[c])) :
               /\ rooms' = [rooms EXCEPT ![c] =
                     startNewQuestion([@ EXCEPT !.game.question = @ + 1],
                                      refill)]
               /\ UNCHANGED sockets
               /\ emitRoom(c)
        ELSE /\ rooms[c].game.round < MaxRound
             /\ rooms' = [rooms EXCEPT ![c] = endRound(@)]
             /\ UNCHANGED sockets
             /\ emitRoom(c)

\* socket.on("disconnect"): the socket is gone afterwards
\* mutant: the player's stored submission is dropped with the connection
disconnectForgetting(s) ==
    LET c == sockets[s].roomCode
        playerId == sockets[s].playerId
    IN  /\ sockets[s].alive
        /\ sockets' = [sockets EXCEPT ![s].alive = FALSE]
        /\ IF c = NULL \/ playerId = NULL THEN UNCHANGED <<rooms, pushed>>
           ELSE IF c \notin DOMAIN rooms THEN UNCHANGED <<rooms, pushed>>
           ELSE IF ~playersHas(rooms[c], playerId)
           THEN UNCHANGED <<rooms, pushed>>
           ELSE /\ rooms' = [rooms EXCEPT
                     ![c].players =
                         playersSet(@, [playersGet(rooms[c], playerId)
                                           EXCEPT !.connected = FALSE,
                                                  !.ready = FALSE]),
                     ![c].game.submissions =
                         [k \in DOMAIN @ \ {playerId} |-> @[k]]]
                /\ emitRoom(c)

\* mutant: the ready flag is left as it was
disconnectKeepReady(s) ==
    LET c == sockets[s].roomCode
        playerId == sockets[s].playerId
    IN  /\ sockets[s].alive
        /\ sockets' = [sockets EXCEPT ![s].alive = FALSE]
        /\ IF c = NULL \/ playerId = NULL THEN UNCHANGED <<rooms, pushed>>
           ELSE IF c \notin DOMAIN rooms THEN UNCHANGED <<rooms, pushed>>
           ELSE IF ~playersHas(rooms[c], playerId)
           THEN UNCHANGED <<rooms, pushed>>
           ELSE /\ rooms' = [rooms EXCEPT ![c].players =
                                playersSet(@, [playersGet(rooms[c], playerId)
                                    EXCEPT !.connected = FALSE])]
                /\ emitRoom(c)

\* socket.on("disconnect"): the socket is gone afterwards
disconnect(s) ==
    LET c == sockets[s].roomCode
        playerId == sockets[s].playerId
    IN  /\ sockets[s].alive
        /\ sockets' = [sockets EXCEPT ![s].alive = FALSE]
        /\ IF c = NULL \/ playerId = NULL THEN UNCHANGED <<rooms, pushed>>
           ELSE IF c \notin DOMAIN rooms THEN UNCHANGED <<rooms, pushed>>
           ELSE IF ~playersHas(rooms[c], playerId)
           THEN UNCHANGED <<rooms, pushed>>
           ELSE /\ rooms' = [rooms EXCEPT ![c].players =
                                playersSet(@, [playersGet(rooms[c], playerId)
                                    EXCEPT !.connected = FALSE,
                                           !.ready = FALSE])]
                /\ emitRoom(c)

\* the score keys a step adds to some room's scoredPairs
NewlyScored ==
    UNION { { <<c, k>> : k \in rooms'[c].game.scoredPairs \
                  (IF c \in DOMAIN rooms THEN rooms[c].game.scoredPairs
                   ELSE {}) } : c \in DOMAIN rooms' }

NoLog == UNCHANGED <<scoredLog, shown>>

\* players press ready in any phase and withdraw it only in the lobby
ReadyOffered(ready) ==
    ready \/ \A c \in DOMAIN rooms : rooms[c].game.state = "LOBBY"

Logged == scoredLog' = scoredLog \cup NewlyScored /\ UNCHANGED shown

\* events that carry a room code: every input for the known code, one
\* representative for a code that matches no room
Next ==
    \/ \E theme \in ThemeInputs : createRoom(theme) /\ NoLog
    \/ \E s \in SocketIds, name \in NameInputs :
          MayJoin(s) /\ joinRoom(s, KnownCode, name, IdOf[s]) /\ NoLog
    \/ \E s \in SocketIds, id \in PlayerIds, ready \in BOOLEAN :
          ReadyOffered(ready) /\ setReady(s, KnownCode, id, ready) /\ NoLog
    \/ \E codeIn \in CodeInputs : hostStartGame(codeIn) /\ NoLog
    \/ \E s \in SocketIds, id \in PlayerIds, in \in SubmitInputs :
          submitAnswers(s, KnownCode, id, in.self, in.predicts) /\ NoLog
    \/ \E codeIn \in CodeInputs : hostNextReveal(codeIn) /\ NoLog
    \/ \E codeIn \in CodeInputs : hostNextQuestion(codeIn) /\ NoLog
    \/ \E s \in SocketIds : disconnect(s) /\ NoLog
    \/ \E s \in SocketIds :
          joinRoom(s, UnknownCode, <<"A">>, IdOf[s]) /\ NoLog
    \/ \E s \in SocketIds :
          setReady(s, UnknownCode, IdOf[s], TRUE) /\ NoLog
    \/ \E s \in SocketIds, in \in SubmitInputs :
          submitAnswers(s, UnknownCode, IdOf[s], in.self, in.predicts) /\ NoLog

\* the events addressed to the room, with the history of evaluated score keys
\* recorded
NextLog ==
    \/ \E theme \in ThemeInputs : createRoom(theme) /\ Logged
    \/ \E s \in SocketIds, name \in NameInputs :
          MayJoin(s) /\ joinRoom(s, KnownCode, name, IdOf[s]) /\ Logged
    \/ \E s \in SocketIds, id \in PlayerIds, ready \in BOOLEAN :
          ReadyOffered(ready) /\ setReady(s, KnownCode, id, ready) /\ Logged
    \/ hostStartGame(KnownCode) /\ Logged
    \/ \E s \in SocketIds, id \in PlayerIds, in \in SubmitInputs :
          submitAnswers(s, KnownCode, id, in.self, in.predicts) /\ Logged
    \/ hostNextReveal(KnownCode) /\ Logged
    \/ hostNextQuestion(KnownCode) /\ Logged
    \/ \E s \in SocketIds : disconnect(s) /\ Logged

Spec == Init /\ [][Next]_vars

SpecLog == Init /\ [][NextLog]_vars

(***************************************************************************)
(* Joins in detail: a session may send joinRoom more than once, the name  *)
(* may exceed the cap, and Math.random may return an id that is in use.   *)
(***************************************************************************)
JoinSockets == {"s1", "s2"}

\* a name one character longer than the cap
LongName == [i \in 1..(MAX_NAME_LEN + 1) |-> IF i = 1 THEN "B" ELSE "o"]
JoinNames == NameInputs \cup {LongName}

\* ids "p_" + Math.random().toString(36).slice(2, 9) can return, in the order
\* they are first drawn
JoinIdOrder == <<"p_a", "p_b", "p_c", "p_d", "p_e", "p_f", "p_g">>
JoinIds == Range(JoinIdOrder)

\* the ids a join to the room may draw: the next unused id or an id in use
IdsOffered(codeIn) ==
    LET c == getRoom(codeIn)
    IN  IF c = NULL THEN {JoinIdOrder[1]}
        ELSE {JoinIdOrder[Len(rooms[c].players) + 1]} \cup Range(playerKeys(rooms[c]))

\* sessions are interchangeable: the long name is sent by the first one
NameOffered(s, name) == s = "s1" \/ name # LongName

NextJoin ==
    \/ \E theme \in ThemeInputs : createRoom(theme) /\ NoLog
    \/ \E s \in JoinSockets, name \in JoinNames, codeIn \in CodeInputs :
          \E id \in IdsOffered(codeIn) :
              NameOffered(s, name) /\ joinRoom(s, codeIn, name, id) /\ NoLog
    \/ \E s \in JoinSockets : disconnect(s) /\ NoLog

SpecJoin == Init /\ [][NextJoin]_vars

(***************************************************************************)
(* Two rooms side by side: session s1 joins the first room, s3 the second,  *)
(* s2 either of them.                                                      *)
(***************************************************************************)
TwoRoomCodes == {"ROOMAA", "ROOMBB"}
TwoCodeInputs == {"roomaa", "roombb", "NOROOM"}
\* the rooms a session may send its join to
TargetsOf ==
    [s \in SocketIds |->
        CASE s = "s1" -> {"roomaa"}
          [] s = "s2" -> {"roomaa", "roombb"}
          [] s = "s3" -> {"roombb"}]

NextRooms ==
    \/ createRoomIn(TwoRoomCodes, "default") /\ NoLog
    \/ \E s \in SocketIds, name \in NameInputs :
          \E codeIn \in TargetsOf[s] :
              MayJoin(s) /\ joinRoom(s, codeIn, name, IdOf[s]) /\ NoLog
    \/ \E s \in SocketIds, codeIn \in TwoCodeInputs, id \in PlayerIds,
          ready \in BOOLEAN :
          ReadyOffered(ready) /\ setReady(s, codeIn, id, ready) /\ NoLog
    \/ \E codeIn \in TwoCodeInputs : hostStartGame(codeIn) /\ NoLog
    \/ \E s \in SocketIds, codeIn \in TwoCodeInputs, id \in PlayerIds,
          in \in SubmitInputs :
          submitAnswers(s, codeIn, id, in.self, in.predicts) /\ NoLog
    \/ \E codeIn \in TwoCodeInputs : hostNextReveal(codeIn) /\ NoLog
    \/ \E codeIn \in TwoCodeInputs : hostNextQuestion(codeIn) /\ NoLog
    \/ \E s \in SocketIds : disconnect(s) /\ NoLog
    \/ \E s \in SocketIds :
          joinRoom(s, UnknownCode, <<"A">>, IdOf[s]) /\ NoLog

SpecRooms == Init /\ [][NextRooms]_vars

(***************************************************************************)
(* Themes: GET /host passes any query value to createRoom.                 *)
(***************************************************************************)
AllThemeInputs == ThemeInputs \cup {"constructor"}

NextTheme ==
    \/ \E theme \in AllThemeInputs : createRoom(theme) /\ NoLog
    \/ \E s \in SocketIds, name \in NameInputs :
          MayJoin(s) /\ joinRoom(s, KnownCode, name, IdOf[s]) /\ NoLog
    \/ \E s \in SocketIds, id \in PlayerIds, ready \in BOOLEAN :
          setReady(s, KnownCode, id, ready) /\ NoLog
    \/ hostStartGame(KnownCode) /\ NoLog
    \/ \E s \in SocketIds : disconnect(s) /\ NoLog

SpecTheme == Init /\ [][NextTheme]_vars

(***************************************************************************)
(* Answers in detail: two players submit texts that meet every branch of   *)
(* the matcher.                                                            *)
(***************************************************************************)
TKat == <<"K", "a", "t">>
TKatBang == <<" ", "k", "a", "t", "!">>
TKater == <<"k", "a", "t", "e", "r">>
TParijs == <<"P", "a", "r", "i", "j", "s">>
TNaarParijs == <<"i", "k", " ", "w", "i", "l", " ", "n", "a", "a", "r", " ", "p", "a", "r", "i", "j", "s">>
THondEnKat == <<"h", "o", "n", "d", " ", "e", "n", " ", "k", "a", "t">>
TKatHond == <<"k", "a", "t", " ", "h", "o", "n", "d">>
TRodeHond == <<"r", "o", "d", "e", " ", "h", "o", "n", "d">>
TEmpty == <<>>
TStop == <<"d", "e", " ", "h", "e", "t">>
TCafe == <<"C", "a", "f", "é">>
TCafePlain == <<"c", "a", "f", "e">>
TFour == <<"r", "o", "o", "d", " ", "g", "e", "e", "l", " ", "b", "l", "a", "u", "w", " ", "g", "r", "o", "e", "n">>
TFourOther == <<"r", "o", "o", "d", " ", "g", "e", "e", "l", " ", "b", "l", "a", "u", "w", " ", "p", "a", "a", "r", "s">>
TShort == <<"a", " ", "b">>

MatchTexts ==
    { TKat, TKatBang, TKater, TParijs, TNaarParijs, THondEnKat, TKatHond, TRodeHond, TEmpty, TStop,
      TCafe, TCafePlain, TFour, TFourOther, TShort }

\* a player answers x and guesses x for every id; or sends no guesses
MatchInputs ==
    { [self |-> x, predicts |-> [i \in PlayerIds |-> x]] : x \in MatchTexts }
    \cup { [self |-> x, predicts |-> << >>] : x \in {TKat, TFourOther} }

NextMatch ==
    \/ createRoom("default") /\ NoLog
    \/ \E s \in JoinSockets, name \in NameInputs :
          MayJoin(s) /\ joinRoom(s, KnownCode, name, IdOf[s]) /\ NoLog
    \/ \E s \in JoinSockets : setReady(s, KnownCode, IdOf[s], TRUE) /\ NoLog
    \/ hostStartGame(KnownCode) /\ NoLog
    \/ \E s \in JoinSockets, in \in MatchInputs :
          submitAnswers(s, KnownCode, IdOf[s], in.self, in.predicts) /\ NoLog

SpecMatch == Init /\ [][NextMatch]_vars

(***************************************************************************)
(* Properties                                                              *)
(***************************************************************************)
PhaseOf(c) == rooms[c].game.state

\* the step is an event of that kind addressed to room c
IsStartGame(c) ==
    \E codeIn \in CodeInputs : getRoom(codeIn) = c /\ hostStartGame(codeIn)
IsNextReveal(c) ==
    \E codeIn \in CodeInputs : getRoom(codeIn) = c /\ hostNextReveal(codeIn)
IsNextQuestion(c) ==
    \E codeIn \in CodeInputs : getRoom(codeIn) = c /\ hostNextQuestion(codeIn)
IsSubmitBy(c, s, id) ==
    \E codeIn \in CodeInputs, in \in SubmitInputs :
        /\ getRoom(codeIn) = c
        /\ submitAnswers(s, codeIn, id, in.self, in.predicts)
IsSubmit(c) == \E s \in SocketIds, id \in PlayerIds : IsSubmitBy(c, s, id)
\* a submit-answer that passes the phase and identity checks of the handler
IsAcceptedSubmit(c) ==
    /\ PhaseOf(c) = "ANSWERING"
    /\ \E s \in SocketIds, id \in PlayerIds :
          /\ sockets[s].alive
          /\ playersHas(rooms[c], id)
          /\ playersGet(rooms[c], id).socketId = s
          /\ IsSubmitBy(c, s, id)

\* C1 (as claimed): every change of a room's phase is LOBBY->ANSWERING by
\* start round, ANSWERING->REVEAL by a submit-answer, REVEAL->SCOREBOARD by
\* advance reveal, or SCOREBOARD->ANSWERING / SCOREBOARD->LOBBY by advance
\* question; and a start-round event changes the room only in LOBBY.
C1_PhaseChanges ==
    [][\A c \in DOMAIN rooms :
        /\ PhaseOf(c)' # PhaseOf(c) =>
             \/ PhaseOf(c) = "LOBBY" /\ PhaseOf(c)' = "ANSWERING"
                  /\ IsStartGame(c)
             \/ PhaseOf(c) = "ANSWERING" /\ PhaseOf(c)' = "REVEAL"
                  /\ IsSubmit(c)
             \/ PhaseOf(c) = "REVEAL" /\ PhaseOf(c)' = "SCOREBOARD"
                  /\ IsNextReveal(c)
             \/ PhaseOf(c) = "SCOREBOARD" /\ PhaseOf(c)' \in {"ANSWERING", "LOBBY"}
                  /\ IsNextQuestion(c)
        /\ (IsStartGame(c) /\ PhaseOf(c) # "LOBBY") => rooms'[c] = rooms[c]
    ]_vars

\* C2 (as claimed): the reveal cursor is within 0..len(revealOrder), and
\* whenever it equals that length the phase is SCOREBOARD.
C2_CursorAtEndIsScoreboard ==
    \A c \in DOMAIN rooms :
        /\ rooms[c].game.revealIndex \in 0..Len(rooms[c].game.revealOrder)
        /\ rooms[c].game.revealIndex = Len(rooms[c].game.revealOrder)
              => PhaseOf(c) = "SCOREBOARD"

\* C2 (amended): the reveal cursor is within 0..len(revealOrder); whenever it
\* equals that length the phase is SCOREBOARD, or it is LOBBY and the reveal
\* order is empty.
C2_CursorInRange ==
    \A c \in DOMAIN rooms :
        /\ rooms[c].game.revealIndex \in 0..Len(rooms[c].game.revealOrder)
        /\ rooms[c].game.revealIndex = Len(rooms[c].game.revealOrder)
              => \/ PhaseOf(c) = "SCOREBOARD"
                 \/ PhaseOf(c) = "LOBBY" /\ rooms[c].game.revealOrder = <<>>

\* a room whose reveal walked through its whole reveal order
C2_Witness ==
    \E c \in DOMAIN rooms :
        /\ PhaseOf(c) = "SCOREBOARD"
        /\ rooms[c].game.revealIndex = Len(rooms[c].game.revealOrder)
        /\ Len(rooms[c].game.revealOrder) >= 2

IdsOf(room) == Range(playerKeys(room))
OrderOf(room) == Range(room.game.revealOrder)

\* the targets, among ids, whose self-answer the stored guess of id matches
MatchedTargets(room, id, ids) ==
    { t \in ids \ {id} :
        computeMatchRelaxed(selfOf(room, t), predictedOf(room, id, t)) }

\* C3: a tuple (round, question, predictor, target) is scored at most once:
\* no step evaluates a score key that an earlier step already evaluated.
C3_ScoredAtMostOnce ==
    [][\A ck \in NewlyScored : ck \notin scoredLog]_vars

\* C4 (as claimed): in the submit-answer step that completes a question each
\* predictor's score grows by the number of distinct other players whose
\* self-answer the predictor's stored guess matches; no other step raises a
\* score.
C4_ScoreGainAllTargets ==
    [][\A c \in DOMAIN rooms : \A i \in 1..Len(rooms[c].players) :
        LET id == rooms[c].players[i].id
            gain == rooms'[c].players[i].score - rooms[c].players[i].score
        IN  IF PhaseOf(c) = "ANSWERING" /\ PhaseOf(c)' = "REVEAL" /\ IsSubmit(c)
            THEN gain = Cardinality(
                     MatchedTargets(rooms'[c], id, IdsOf(rooms'[c])))
            ELSE rooms'[c].players = rooms[c].players \/ gain <= 0
    ]_vars

\* C4 (amended): in the submit-answer step that completes a question the
\* score of each player of the reveal order grows by the number of distinct
\* other players of the reveal order whose self-answer the player's stored
\* guess matches, the score of a player outside the reveal order does not
\* change, and no other step raises a score.
C4_ScoreGainRevealOrder ==
    [][\A c \in DOMAIN rooms : \A i \in 1..Len(rooms[c].players) :
        LET id == rooms[c].players[i].id
            gain == rooms'[c].players[i].score - rooms[c].players[i].score
        IN  IF PhaseOf(c) = "ANSWERING" /\ PhaseOf(c)' = "REVEAL" /\ IsSubmit(c)
            THEN gain = IF id \in OrderOf(rooms'[c])
                        THEN Cardinality(
                            MatchedTargets(rooms'[c], id, OrderOf(rooms'[c])))
                        ELSE 0
            ELSE rooms'[c].players = rooms[c].players \/ gain <= 0
    ]_vars

\* a completed question in which one player matched and another did not
C4_Witness ==
    \E c \in DOMAIN rooms :
        /\ PhaseOf(c) = "REVEAL"
        /\ \E p, q \in OrderOf(rooms[c]) :
              /\ MatchedTargets(rooms[c], p, OrderOf(rooms[c])) # {}
              /\ MatchedTargets(rooms[c], q, OrderOf(rooms[c])) = {}
              /\ playersGet(rooms[c], p).score > playersGet(rooms[c], q).score

\* fewer than 2 connected players, or a connected player who is not ready
StartRefused(room) ==
    \/ Cardinality({ i \in 1..Len(room.players) :
                       room.players[i].connected }) < 2
    \/ \E i \in 1..Len(room.players) :
          room.players[i].connected /\ ~room.players[i].ready

\* C5: a start-round event on a room with fewer than 2 connected players, or
\* with a connected player who is not ready, leaves the room unchanged.
C5_StartRefusedNoChange ==
    [][\A c \in DOMAIN rooms :
        (StartRefused(rooms[c]) /\ IsStartGame(c)) => rooms'[c] = rooms[c]
    ]_vars

\* a room whose only connected player is ready, and a room with two connected
\* players of which one is not ready: start round is refused in both
C5_Witness ==
    \E c \in DOMAIN rooms :
        /\ StartRefused(rooms[c])
        /\ \E i \in 1..Len(rooms[c].players) :
              rooms[c].players[i].connected /\ rooms[c].players[i].ready
        /\ Len(rooms[c].players) >= 2

\* C6: the phase changes from ANSWERING to REVEAL in exactly the steps that
\* are an accepted submit-answer after which the number of stored submissions
\* equals the number of players.
C6_RevealIffAllSubmitted ==
    [][\A c \in DOMAIN rooms :
        (PhaseOf(c) = "ANSWERING" /\ PhaseOf(c)' = "REVEAL")
        <=> /\ PhaseOf(c) = "ANSWERING"
            /\ Cardinality(DOMAIN rooms'[c].game.submissions)
                  = Len(rooms'[c].players)
            /\ IsAcceptedSubmit(c)
    ]_vars

\* a question completed by three players, the third of whom joined after the
\* question started
C6_Witness ==
    \E c \in DOMAIN rooms :
        /\ PhaseOf(c) = "REVEAL"
        /\ Len(rooms[c].players) = 3
        /\ Len(rooms[c].game.revealOrder) = 2
        /\ DOMAIN rooms[c].game.submissions = IdsOf(rooms[c])

\* C7 (as claimed): an accepted advance-reveal raises the cursor by 1, and the
\* phase becomes SCOREBOARD exactly when the cursor equals the player count.
C7_ScoreboardAtPlayerCount ==
    [][\A c \in DOMAIN rooms :
        (IsNextReveal(c) /\ PhaseOf(c) = "REVEAL") =>
            /\ rooms'[c].game.revealIndex = rooms[c].game.revealIndex + 1
            /\ PhaseOf(c)' = "SCOREBOARD"
                  <=> rooms'[c].game.revealIndex = Len(rooms'[c].players)
    ]_vars

\* C7 (amended): an accepted advance-reveal raises the cursor by 1, and the
\* phase becomes SCOREBOARD exactly when the cursor equals the length of the
\* reveal order; otherwise the phase stays REVEAL.
C7_ScoreboardAtOrderLength ==
    [][\A c \in DOMAIN rooms :
        (IsNextReveal(c) /\ PhaseOf(c) = "REVEAL") =>
            /\ rooms'[c].game.revealIndex = rooms[c].game.revealIndex + 1
            /\ PhaseOf(c)' = "SCOREBOARD"
                  <=> rooms'[c].game.revealIndex
                          = Len(rooms'[c].game.revealOrder)
            /\ PhaseOf(c)' \in {"SCOREBOARD", "REVEAL"}
    ]_vars

\* the scoreboard of a question that a third player joined after it started
C7_Witness ==
    \E c \in DOMAIN rooms :
        /\ PhaseOf(c) = "SCOREBOARD"
        /\ rooms[c].game.revealIndex = 2
        /\ Len(rooms[c].game.revealOrder) = 2
        /\ Len(rooms[c].players) = 3

\* C8: a submit-answer outside ANSWERING, an advance-reveal outside REVEAL and
\* an advance-question outside SCOREBOARD leave the room unchanged.
C8_OutOfPhaseNoChange ==
    [][\A c \in DOMAIN rooms :
        \/ rooms'[c] = rooms[c]
        \/ /\ ~(PhaseOf(c) # "ANSWERING" /\ IsSubmit(c))
           /\ ~(PhaseOf(c) # "REVEAL" /\ IsNextReveal(c))
           /\ ~(PhaseOf(c) # "SCOREBOARD" /\ IsNextQuestion(c))
    ]_vars

\* a room in REVEAL whose players' sockets are alive: their submit-answer and
\* the host's advance-question are out of phase
C8_Witness ==
    \E c \in DOMAIN rooms :
        /\ PhaseOf(c) = "REVEAL"
        /\ rooms[c].game.question < rooms[c].game.questionsPerRound
        /\ \A i \in 1..Len(rooms[c].players) :
              sockets[rooms[c].players[i].socketId].alive

\* the stored form of every submit-answer payload
TextVariants(room) ==
    { [self |-> cleanText(in.self),
       predicts |-> cleanPredictsOf(room, in.predicts)] : in \in SubmitInputs }

\* the rooms that differ from room only in the stored answer texts
AltAnswers(room) ==
    { [room EXCEPT !.game.submissions = f] :
        f \in [DOMAIN room.game.submissions -> TextVariants(room)] }

\* the rooms that differ from room only in the prompt and the answer texts
AltTexts(room) ==
    { [alt EXCEPT !.game.prompt = p] :
        alt \in AltAnswers(room),
        p \in Range(themePromptsOf(room)) \cup {NULL} }

\* C9: the player snapshot carries no prompt, self-answer or prediction text:
\* rooms that differ only in these have the same player snapshot.
C9_PlayerSnapshotHidesText ==
    \A c \in DOMAIN rooms : \A alt \in AltTexts(rooms[c]) :
        snapshot(alt, FALSE) = snapshot(rooms[c], FALSE)

\* a room in REVEAL with a prompt and a stored non-empty self-answer
C9_Witness ==
    \E c \in DOMAIN rooms :
        /\ PhaseOf(c) = "REVEAL"
        /\ rooms[c].game.prompt # NULL
        /\ \E id \in DOMAIN rooms[c].game.submissions :
              rooms[c].game.submissions[id].self # <<>>
        /\ Cardinality(AltTexts(rooms[c])) > 1

\* C10: the host snapshot has a reveal payload iff the phase is REVEAL; then
\* the cursor is below the reveal-order length, the payload's target is the
\* player at the cursor and that player has a stored submission, whose
\* self-answer is the payload's; in every other phase the host snapshot does
\* not depend on the stored answer texts.
C10_RevealPayloadOnlyInReveal ==
    \A c \in DOMAIN rooms :
        LET room == rooms[c]
            host == snapshot(room, TRUE)
            idx == room.game.revealIndex
        IN  /\ host.revealData # NoRevealData <=> PhaseOf(c) = "REVEAL"
            /\ PhaseOf(c) = "REVEAL" =>
                  /\ idx < Len(room.game.revealOrder)
                  /\ host.revealData.targetId = room.game.revealOrder[idx + 1]
                  /\ host.revealData.targetId \in DOMAIN room.game.submissions
                  /\ host.revealData.targetAnswer =
                        room.game.submissions[host.revealData.targetId].self
            /\ PhaseOf(c) # "REVEAL" =>
                  \A alt \in AltAnswers(room) :
                      snapshot(alt, TRUE) = snapshot(room, TRUE)

\* the reveal of the second target of the reveal order
C10_Witness ==
    \E c \in DOMAIN rooms :
        /\ PhaseOf(c) = "REVEAL"
        /\ rooms[c].game.revealIndex = 1
        /\ snapshot(rooms[c], TRUE).revealData.targetId
              = rooms[c].game.revealOrder[2]
        /\ snapshot(rooms[c], TRUE).revealData.targetAnswer = TextKat


(***************************************************************************)
(* Joins                                                                   *)
(***************************************************************************)
\* the step is a joinRoom event of session s that resolves to room c
IsJoinBy(c, s, name) ==
    \E codeIn \in CodeInputs, id \in JoinIds :
        getRoom(codeIn) = c /\ joinRoom(s, codeIn, name, id)
IsJoin(c) == \E s \in JoinSockets, name \in JoinNames : IsJoinBy(c, s, name)
\* the same for a join that succeeded: the id it drew is the one the session
\* holds afterwards
IsJoinDone(c, s, name) ==
    /\ sockets'[s].roomCode = c
    /\ joinRoom(s, c, name, sockets'[s].playerId)

\* the maximum the claim states for the room
ClaimedMax(room) == IF room.theme = "dating" THEN 2 ELSE 6

NameEmpty(name) == trim(name) = <<>>
NameTooLong(name) == Len(trim(name)) > 24
\* the first n characters of s
FirstChars(s, n) == [i \in 1..(IF Len(s) < n THEN Len(s) ELSE n) |-> s[i]]

\* C12 (as claimed): a join whose name is empty after trimming or longer than
\* the cap adds no player and leaves the room unchanged.
C12_BadNameRejected ==
    [][\A c \in DOMAIN rooms, s \in JoinSockets, name \in JoinNames :
          ((NameEmpty(name) \/ NameTooLong(name)) /\ IsJoinBy(c, s, name))
          => rooms'[c] = rooms[c]]_vars

\* C12 (amended): a join whose name is empty after trimming leaves the room
\* unchanged; a join that changes the room stores the trimmed name cut to its
\* first 24 characters, so a longer name is accepted in that form.
C12_NameTrimmedAndCut ==
    [][\A c \in DOMAIN rooms, s \in JoinSockets, name \in JoinNames :
          (rooms'[c] # rooms[c] /\ IsJoinDone(c, s, name)) =>
             IF NameEmpty(name) \/ Len(rooms[c].players) >= ClaimedMax(rooms[c])
             THEN rooms'[c] = rooms[c]
             ELSE \E i \in 1..Len(rooms'[c].players) :
                    /\ rooms'[c].players[i].socketId = s
                    /\ rooms'[c].players[i].name =
                          FirstChars(trim(name), 24)
                    /\ Len(rooms'[c].players[i].name) \in 1..24
                    /\ rooms'[c].players[i].id = sockets'[s].playerId]_vars

\* a player carries the first 24 characters of the 25-character name
C12_Witness ==
    \E c \in DOMAIN rooms : \E i \in 1..Len(rooms[c].players) :
        /\ Len(rooms[c].players[i].name) = 24
        /\ rooms[c].players[i].name = FirstChars(LongName, 24)

\* a join that passes the room, size and name checks of the handler
IsAcceptedJoin(c) ==
    /\ Len(rooms[c].players) < maxPlayersOf(rooms[c])
    /\ \E s \in JoinSockets, name \in JoinNames :
          ~NameEmpty(name) /\ IsJoinBy(c, s, name)

\* C13 (as claimed): an accepted join adds exactly one player, whose id is
\* not yet in the room, after the players already there; no step removes a
\* player or changes the id, name or session of a player of the room.
C13_JoinAddsFreshPlayer ==
    [][\A c \in DOMAIN rooms :
          LET old == rooms[c].players
              new == rooms'[c].players
          IN  /\ Len(new) >= Len(old)
              /\ \A i \in 1..Len(old) :
                    /\ new[i].id = old[i].id
                    /\ new[i].name = old[i].name
                    /\ new[i].socketId = old[i].socketId
              /\ IsAcceptedJoin(c) =>
                    /\ Len(new) = Len(old) + 1
                    /\ new[Len(new)].id \notin Range(playerKeys(rooms[c]))]_vars

(***************************************************************************)
(* Disconnect                                                              *)
(***************************************************************************)
\* C14: a disconnect changes only the connected and ready flags of the
\* disconnecting player, both to false: the player stays in the room, and the
\* player's id, name, score and stored submission, the game (phase, reveal
\* state, counters, submissions) and every other player are unchanged.
C14_DisconnectFrame ==
    [][\A s \in SocketIds :
          (sockets[s].alive /\ ~sockets'[s].alive /\ disconnect(s)) =>
          /\ DOMAIN rooms' = DOMAIN rooms
          /\ \A c \in DOMAIN rooms :
                LET old == rooms[c].players
                    new == rooms'[c].players
                IN  /\ rooms'[c].game = rooms[c].game
                    /\ rooms'[c].theme = rooms[c].theme
                    /\ Len(new) = Len(old)
                    /\ \A i \in 1..Len(old) :
                          IF /\ old[i].id = sockets[s].playerId
                             /\ c = sockets[s].roomCode
                          THEN /\ ~new[i].connected
                               /\ ~new[i].ready
                               /\ new[i].id = old[i].id
                               /\ new[i].name = old[i].name
                               /\ new[i].score = old[i].score
                               /\ new[i].socketId = old[i].socketId
                          ELSE new[i] = old[i]]_vars

\* a player who scored and has a submission stored for the open question is
\* disconnected, and was ready before
C14_Witness ==
    \E c \in DOMAIN rooms : \E i \in 1..Len(rooms[c].players) :
        /\ rooms[c].game.state = "ANSWERING"
        /\ ~rooms[c].players[i].connected
        /\ ~rooms[c].players[i].ready
        /\ rooms[c].players[i].score > 0
        /\ rooms[c].players[i].id \in DOMAIN rooms[c].game.submissions

(***************************************************************************)
(* Submissions                                                             *)
(***************************************************************************)
\* the room after a submit-answer of player id that passed the identity
\* check: stored in ANSWERING, ignored in every other phase
Submitted(room, id, in) ==
    IF room.game.state = "ANSWERING"
    THEN storeSubmission(room, id, in.self, in.predicts)
    ELSE room

\* the players of the room who have no submission stored
Missing(room) == IdsOf(room) \ DOMAIN room.game.submissions

\* C15: in ANSWERING, the submissions of two players who have not submitted
\* yet lead to the same room (match results, scores, scored pairs, cursor,
\* phase) in either arrival order; and in REVEAL every player of the reveal
\* order has a stored submission, the match results are those of the stored
\* submissions and every ordered pair of the reveal order is among the scored
\* pairs.
C15_ArrivalOrderIrrelevant ==
    \A c \in DOMAIN rooms :
        /\ rooms[c].game.state = "ANSWERING" =>
              \A p \in Missing(rooms[c]) : \A q \in Missing(rooms[c]) \ {p} :
                  \A x \in SubmitInputs, y \in SubmitInputs :
                      Submitted(Submitted(rooms[c], p, x), q, y) =
                      Submitted(Submitted(rooms[c], q, y), p, x)
        /\ rooms[c].game.state = "REVEAL" =>
              /\ OrderOf(rooms[c]) \subseteq DOMAIN rooms[c].game.submissions
              /\ \A t \in OrderOf(rooms[c]) : \A p \in OrderOf(rooms[c]) \ {t} :
                    /\ rooms[c].game.matchMap[t][p] =
                          computeMatchRelaxed(
                              rooms[c].game.submissions[t].self,
                              IF t \in DOMAIN rooms[c].game.submissions[p].predicts
                              THEN rooms[c].game.submissions[p].predicts[t]
                              ELSE <<>>)
                    /\ <<rooms[c].game.round, rooms[c].game.question, p, t>>
                          \in rooms[c].game.scoredPairs

\* three players of the reveal order submitted, with a matched and an
\* unmatched pair among them
C15_Witness ==
    \E c \in DOMAIN rooms :
        /\ rooms[c].game.state = "REVEAL"
        /\ Cardinality(OrderOf(rooms[c])) = 3
        /\ \E t \in OrderOf(rooms[c]) : \E p \in OrderOf(rooms[c]) \ {t} :
              rooms[c].game.matchMap[t][p]
        /\ \E t \in OrderOf(rooms[c]) : \E p \in OrderOf(rooms[c]) \ {t} :
              ~rooms[c].game.matchMap[t][p]

\* the submission a payload is stored as: texts trimmed and cut to 80
\* characters, guesses kept for the players of the room only
StoredAs(room, in) ==
    [ self |-> FirstChars(trim(in.self), 80),
      predicts |-> [k \in DOMAIN in.predicts \cap IdsOf(room) |->
                        FirstChars(trim(in.predicts[k]), 80)] ]

\* C16: while the phase stays ANSWERING, a submit-answer of a player who has
\* a submission stored replaces it by the new payload alone (self-answer and
\* guesses, nothing kept from the earlier one), leaves every other submission
\* and the set of submitters unchanged, and submitting a payload twice gives
\* the same room as submitting it once.
C16_ResubmitReplaces ==
    /\ [](\A c \in DOMAIN rooms :
            (rooms[c].game.state = "ANSWERING") =>
               \A id \in IdsOf(rooms[c]), x \in SubmitInputs :
                  Submitted(Submitted(rooms[c], id, x), id, x) =
                  Submitted(rooms[c], id, x))
    /\ [][\A c \in DOMAIN rooms :
            (/\ rooms[c].game.state = "ANSWERING"
             /\ rooms'[c].game.state = "ANSWERING"
             /\ rooms'[c].game.submissions # rooms[c].game.submissions) =>
            \A id \in DOMAIN rooms[c].game.submissions :
               \A s \in SocketIds, x \in SubmitInputs :
                  (/\ playersGet(rooms[c], id).socketId = s
                   /\ submitAnswers(s, KnownCode, id, x.self, x.predicts))
                  => /\ rooms'[c].game.submissions =
                           [rooms[c].game.submissions EXCEPT
                               ![id] = StoredAs(rooms[c], x)]
                     /\ rooms'[c].players = rooms[c].players]_vars

\* a player whose stored submission carried guesses has submitted again and
\* now has the empty submission stored, while another player's is kept
C16_Witness ==
    \E c \in DOMAIN rooms :
        /\ rooms[c].game.state = "ANSWERING"
        /\ \E id \in DOMAIN rooms[c].game.submissions :
              /\ rooms[c].game.submissions[id].predicts = << >>
              /\ rooms[c].game.submissions[id].self = <<>>
        /\ \E id \in DOMAIN rooms[c].game.submissions :
              rooms[c].game.submissions[id].predicts # << >>

\* C17: in every reachable state every target id of every stored
\* predictions map is the id of a player of the room, and a step that stores
\* a submission stores guesses only for ids that were players of the room
\* when it was sent.
C17_StoredTargetsArePlayers ==
    /\ [](\A c \in DOMAIN rooms :
            \A id \in DOMAIN rooms[c].game.submissions :
               DOMAIN rooms[c].game.submissions[id].predicts
                  \subseteq IdsOf(rooms[c]))
    /\ [][\A c \in DOMAIN rooms :
            (rooms'[c].game.submissions # rooms[c].game.submissions) =>
            \A id \in DOMAIN rooms'[c].game.submissions :
               \/ /\ id \in DOMAIN rooms[c].game.submissions
                  /\ rooms'[c].game.submissions[id] =
                        rooms[c].game.submissions[id]
               \/ DOMAIN rooms'[c].game.submissions[id].predicts
                     \subseteq IdsOf(rooms[c])]_vars

\* a payload with guesses for p_a, p_b, p_c and an unknown id was stored in a
\* room of two players: only the guesses for the two players are kept
C17_Witness ==
    \E c \in DOMAIN rooms :
        /\ Len(rooms[c].players) = 2
        /\ \E id \in DOMAIN rooms[c].game.submissions :
              /\ DOMAIN rooms[c].game.submissions[id].predicts = IdsOf(rooms[c])
              /\ UnknownId \notin DOMAIN rooms[c].game.submissions[id].predicts

IsSetReadyBy(c, s, id) ==
    \E codeIn \in CodeInputs, ready \in BOOLEAN :
        getRoom(codeIn) = c /\ setReady(s, codeIn, id, ready)

\* id is no player of the room, or a player created by another session than s
Foreign(room, s, id) ==
    \A i \in 1..Len(room.players) :
        room.players[i].id = id => room.players[i].socketId # s

\* C19: in every phase, a set-ready or submit-answer event of a session that
\* names an id which is no player of the addressed room, or a player another
\* session created, leaves the room unchanged: no step that changes a room
\* is such an event.
C19_ForeignIdNoChange ==
    [][\A c \in DOMAIN rooms :
          (rooms'[c] # rooms[c]) =>
          \A s \in SocketIds, id \in PlayerIds \cup {UnknownId} :
             Foreign(rooms[c], s, id) =>
                /\ ~IsSetReadyBy(c, s, id)
                /\ ~IsSubmitBy(c, s, id)]_vars

\* a room in ANSWERING in which one of three players has not submitted and a
\* player is not ready: a foreign submit-answer or set-ready would show
C19_Witness ==
    \E c \in DOMAIN rooms :
        /\ rooms[c].game.state = "ANSWERING"
        /\ Len(rooms[c].players) = 3
        /\ Cardinality(DOMAIN rooms[c].game.submissions) = 2
        /\ \E i \in 1..3 : ~rooms[c].players[i].ready

(***************************************************************************)
(* Rooms side by side                                                      *)
(***************************************************************************)
\* the step is an event addressed to room d
IsEventFor(d) ==
    \/ \E codeIn \in TwoCodeInputs :
          /\ getRoom(codeIn) = d
          /\ \/ hostStartGame(codeIn)
             \/ hostNextReveal(codeIn)
             \/ hostNextQuestion(codeIn)
             \/ \E s \in SocketIds, name \in NameInputs :
                   joinRoom(s, codeIn, name, IdOf[s])
             \/ \E s \in SocketIds, id \in PlayerIds, ready \in BOOLEAN :
                   setReady(s, codeIn, id, ready)
             \/ \E s \in SocketIds, id \in PlayerIds, in \in SubmitInputs :
                   submitAnswers(s, codeIn, id, in.self, in.predicts)
    \/ \E s \in SocketIds : sockets[s].roomCode = d /\ disconnect(s)

\* the step is an event that carries a code matching no room
IsEventForNoRoom ==
    \E codeIn \in TwoCodeInputs :
       /\ toUpperCase(codeIn) \notin DOMAIN rooms
       /\ \/ hostStartGame(codeIn)
          \/ hostNextReveal(codeIn)
          \/ hostNextQuestion(codeIn)
          \/ \E s \in SocketIds, name \in NameInputs \cup {<<"A">>} :
                joinRoom(s, codeIn, name, IdOf[s])
          \/ \E s \in SocketIds, id \in PlayerIds, ready \in BOOLEAN :
                setReady(s, codeIn, id, ready)
          \/ \E s \in SocketIds, id \in PlayerIds, in \in SubmitInputs :
                submitAnswers(s, codeIn, id, in.self, in.predicts)

C21_CreateKeepsRooms ==
    [][(rooms' # rooms) =>
          /\ DOMAIN rooms \subseteq DOMAIN rooms'
          /\ (DOMAIN rooms' # DOMAIN rooms) =>
                /\ Cardinality(DOMAIN rooms' \ DOMAIN rooms) = 1
                /\ \A c \in DOMAIN rooms : rooms'[c] = rooms[c]
                /\ \A c \in DOMAIN rooms' \ DOMAIN rooms :
                      /\ rooms'[c].code = c
                      /\ rooms'[c].players = <<>>
                      /\ rooms'[c].game.state = "LOBBY"
          /\ (DOMAIN rooms' = DOMAIN rooms) =>
                ~\E theme \in ThemeInputs : createRoomIn(TwoRoomCodes, theme)]_vars

\* a room was created while another room was at its scoreboard with points
\* scored: the new room is empty, the other one is as it was
C21_Witness ==
    \E c \in DOMAIN rooms : \E d \in DOMAIN rooms \ {c} :
        /\ rooms[c].game.state = "SCOREBOARD"
        /\ \E i \in 1..Len(rooms[c].players) : rooms[c].players[i].score > 0
        /\ Len(rooms[c].players) = 2
        /\ rooms[d].players = <<>>

(***************************************************************************)
(* Themes                                                                  *)
(***************************************************************************)
KnownThemes == {"default", "holidays", "18+", "dating", "friendgroup", "work"}

\* C22 (as claimed): the theme of every room is one of default, holidays,
\* 18+, dating, friendgroup and work, and the prompt set of the room is the
\* list of prompts of that theme.
C22_ThemeIsKnown ==
    \A c \in DOMAIN rooms :
        /\ rooms[c].theme \in KnownThemes
        /\ themePromptsOf(rooms[c]) = THEMES[rooms[c].theme]

(***************************************************************************)
(* Matching                                                                *)
(***************************************************************************)
\* the stored guess of predictor p for target t, "" if there is none
GuessOf(room, p, t) ==
    IF t \in DOMAIN room.game.submissions[p].predicts
    THEN room.game.submissions[p].predicts[t] ELSE <<>>

\* C23: matching is symmetric and reflexive on texts that normalize to a
\* non-empty string: when two players each guessed for the other what they
\* answered themselves, the two match results between them are equal, and
\* a guess that is the target's own answer matches unless that answer
\* normalizes to the empty string.
C23_MatchSymmetric ==
    \A c \in DOMAIN rooms :
        (rooms[c].game.state = "REVEAL") =>
        \A a \in OrderOf(rooms[c]) : \A b \in OrderOf(rooms[c]) \ {a} :
            LET self_a == rooms[c].game.submissions[a].self
                self_b == rooms[c].game.submissions[b].self
            IN  /\ (/\ GuessOf(rooms[c], a, b) = self_a
                    /\ GuessOf(rooms[c], b, a) = self_b)
                   => rooms[c].game.matchMap[a][b] = rooms[c].game.matchMap[b][a]
                /\ (/\ GuessOf(rooms[c], b, a) = self_a
                    /\ normalizeAnswer(self_a) # <<>>)
                   => rooms[c].game.matchMap[a][b]

\* one player answered Parijs, the other "ik wil naar parijs", each guessing
\* their own answer for the other: both results are matches
C23_Witness ==
    \E c \in DOMAIN rooms :
        /\ rooms[c].game.state = "REVEAL"
        /\ rooms[c].game.submissions["p_a"].self = TParijs
        /\ rooms[c].game.submissions["p_b"].self = TNaarParijs
        /\ GuessOf(rooms[c], "p_a", "p_b") = TParijs
        /\ GuessOf(rooms[c], "p_b", "p_a") = TNaarParijs
        /\ rooms[c].game.matchMap["p_a"]["p_b"]
        /\ rooms[c].game.matchMap["p_b"]["p_a"]

\* x occurs in y as a contiguous run of characters
IsSubstring(x, y) ==
    \E i \in 1..(Len(y) - Len(x) + 1) :
        \A k \in 1..Len(x) : y[i + k - 1] = x[k]

\* the match the claim defines
ClaimedMatch(target, predicted) ==
    LET na == normalizeAnswer(target)
        nb == normalizeAnswer(predicted)
        ta == tokenize(target)
        tb == tokenize(predicted)
    IN  /\ na # <<>>
        /\ nb # <<>>
        /\ \/ na = nb
           \/ Len(na) >= 4 /\ IsSubstring(na, nb)
           \/ Len(nb) >= 4 /\ IsSubstring(nb, na)
           \/ /\ ta # {}
              /\ tb # {}
              /\ 5 * Cardinality(ta \cap tb) >= 3 * Cardinality(ta \cup tb)

\* C24: every stored match result is true exactly if both normalized texts
\* are non-empty and they are equal, or one of at least 4 characters is
\* contained in the other, or both token sets are non-empty with
\* 5 * |intersection| >= 3 * |union|; an empty answer and an empty or
\* missing guess never match.
C24_MatchAsClaimed ==
    \A c \in DOMAIN rooms :
        (rooms[c].game.state = "REVEAL") =>
        \A t \in OrderOf(rooms[c]) : \A p \in OrderOf(rooms[c]) \ {t} :
            /\ rooms[c].game.matchMap[t][p] =
                  ClaimedMatch(rooms[c].game.submissions[t].self,
                               GuessOf(rooms[c], p, t))
            /\ (\/ rooms[c].game.submissions[t].self = <<>>
                \/ GuessOf(rooms[c], p, t) = <<>>)
               => ~rooms[c].game.matchMap[t][p]

\* two answers of four words that share three (similarity exactly 0.6)
\* match, and a missing guess does not
C24_Witness ==
    \E c \in DOMAIN rooms :
        /\ rooms[c].game.state = "REVEAL"
        /\ rooms[c].game.submissions["p_a"].self = TFour
        /\ GuessOf(rooms[c], "p_a", "p_b") = TFour
        /\ rooms[c].game.submissions["p_b"].self = TFourOther
        /\ rooms[c].game.matchMap["p_b"]["p_a"]
        /\ rooms[c].game.submissions["p_b"].predicts = << >>
        /\ ~rooms[c].game.matchMap["p_a"]["p_b"]

(***************************************************************************)
(* Pushing the room state                                                  *)
(***************************************************************************)
\* C25: every event that changes a room's state ends with the host snapshot
\* pushed to the room's host channel and the player snapshot pushed to its
\* player channel, both built from the room as the event left it.
C25_PushAfterChange ==
    [][\A c \in DOMAIN rooms :
          (c \notin DOMAIN rooms' \/ rooms'[c] # rooms[c]) =>
              /\ c \in DOMAIN rooms'
              /\ c \in DOMAIN pushed'
              /\ pushed'[c] = roomStates(rooms'[c])]_vars

(***************************************************************************)
(* Submissions of players who left                                         *)
(***************************************************************************)
\* the players with a stored submission who are disconnected
GoneSubmitters(room) ==
    { d \in DOMAIN room.game.submissions : ~playersGet(room, d).connected }

ScoreOf(room, id) == playersGet(room, id).score

\* C26: the stored submission of a player who disconnected during ANSWERING
\* stays stored through every step other than a start round, and the step
\* after which every other player has a submission too moves the room to
\* REVEAL, with the disconnected player's self-answer matched against the
\* others' guesses, the player's guesses matched against the others'
\* self-answers, and the player's score raised by the number of matches
\* among those guesses.
C26_GoneSubmitterCounts ==
    [][\A c \in DOMAIN rooms :
          (/\ c \in DOMAIN rooms'
           /\ rooms'[c] # rooms[c]
           /\ PhaseOf(c) = "ANSWERING"
           /\ ~IsStartGame(c)) =>
          \A d \in GoneSubmitters(rooms[c]) :
              /\ d \in DOMAIN rooms'[c].game.submissions
              /\ rooms'[c].game.submissions[d] = rooms[c].game.submissions[d]
              /\ (IdsOf(rooms'[c]) \ {d} \subseteq
                      DOMAIN rooms'[c].game.submissions) =>
                    /\ rooms'[c].game.state = "REVEAL"
                    /\ d \in OrderOf(rooms'[c]) =>
                          /\ \A p \in OrderOf(rooms'[c]) \ {d} :
                                /\ rooms'[c].game.matchMap[d][p] =
                                      computeMatchRelaxed(
                                          rooms[c].game.submissions[d].self,
                                          GuessOf(rooms'[c], p, d))
                                /\ rooms'[c].game.matchMap[p][d] =
                                      computeMatchRelaxed(
                                          rooms'[c].game.submissions[p].self,
                                          GuessOf(rooms[c], d, p))
                          /\ ScoreOf(rooms'[c], d) = ScoreOf(rooms[c], d) +
                                Cardinality(MatchedTargets(rooms'[c], d,
                                                OrderOf(rooms'[c])))
    ]_vars

\* the first question is revealed, and a player who is disconnected scored
\* on it with a guess stored before leaving
C26_Witness ==
    \E c \in DOMAIN rooms :
        /\ rooms[c].game.state = "REVEAL"
        /\ rooms[c].game.round = 1
        /\ rooms[c].game.question = 1
        /\ \E d \in GoneSubmitters(rooms[c]) \cap OrderOf(rooms[c]) :
              /\ ScoreOf(rooms[c], d) >= 1
              /\ \E t \in OrderOf(rooms[c]) \ {d} : rooms[c].game.matchMap[t][d]

(***************************************************************************)
(* Start round and advance question                                        *)
(***************************************************************************)
\* C27: a start-round event on a room with at least 2 connected players,
\* all of them ready, leaves the room with every score 0, question 1, phase
\* ANSWERING, no submissions, match results or scored pairs, cursor 0, the
\* reveal order equal to the player ids in join order, and prompt and pool
\* the head and the rest of a shuffle of the prompts of the room's theme;
\* round, ready and connected flags (and the players otherwise) unchanged.
C27_StartRoundEffect ==
    [][\A c \in DOMAIN rooms :
          (canStartGame(rooms[c]) /\ IsStartGame(c)) =>
              /\ c \in DOMAIN rooms'
              /\ rooms'[c].players =
                    [i \in 1..Len(rooms[c].players) |->
                        [rooms[c].players[i] EXCEPT !.score = 0]]
              /\ rooms'[c].game.question = 1
              /\ rooms'[c].game.state = "ANSWERING"
              /\ rooms'[c].game.submissions = << >>
              /\ rooms'[c].game.matchMap = << >>
              /\ rooms'[c].game.scoredPairs = {}
              /\ rooms'[c].game.revealIndex = 0
              /\ rooms'[c].game.revealOrder = playerKeys(rooms[c])
              /\ rooms[c].theme \in KnownThemes
              /\ \E pool \in shuffle(THEMES[rooms[c].theme]) :
                    /\ rooms'[c].game.prompt = Head(pool)
                    /\ rooms'[c].game.promptPool = Tail(pool)
              /\ rooms'[c].game.round = rooms[c].game.round
              /\ rooms'[c].theme = rooms[c].theme
              /\ rooms'[c].code = rooms[c].code]_vars

\* C28: an advance-question event in SCOREBOARD with the question counter
\* below questions-per-round raises the counter by 1 and enters ANSWERING
\* with no submissions, match results or scored pairs, cursor 0 and the
\* reveal order taken from the current players, round and players (scores
\* included) unchanged; at the last question it raises the round by 1, sets
\* the counter to 0, clears prompt, pool, submissions, reveal order, cursor,
\* match results and scored pairs, sets every ready flag to false and enters
\* LOBBY, the players otherwise (scores included) unchanged.
C28_AdvanceQuestionEffect ==
    [][\A c \in DOMAIN rooms :
          (PhaseOf(c) = "SCOREBOARD" /\ IsNextQuestion(c)) =>
              /\ c \in DOMAIN rooms'
              /\ rooms'[c].game.submissions = << >>
              /\ rooms'[c].game.matchMap = << >>
              /\ rooms'[c].game.scoredPairs = {}
              /\ rooms'[c].game.revealIndex = 0
              /\ IF rooms[c].game.question < QUESTIONS_PER_ROUND
                 THEN /\ rooms'[c].game.question = rooms[c].game.question + 1
                      /\ rooms'[c].game.state = "ANSWERING"
                      /\ rooms'[c].game.revealOrder = playerKeys(rooms[c])
                      /\ rooms'[c].game.round = rooms[c].game.round
                      /\ rooms'[c].players = rooms[c].players
                 ELSE /\ rooms'[c].game.round = rooms[c].game.round + 1
                      /\ rooms'[c].game.question = 0
                      /\ rooms'[c].game.prompt = NULL
                      /\ rooms'[c].game.promptPool = <<>>
                      /\ rooms'[c].game.revealOrder = <<>>
                      /\ rooms'[c].game.state = "LOBBY"
                      /\ rooms'[c].players =
                            [i \in 1..Len(rooms[c].players) |->
                                [rooms[c].players[i] EXCEPT !.ready = FALSE]]
    ]_vars

\* a room is back in the lobby after its first round, with a score kept
C28_Witness ==
    \E c \in DOMAIN rooms :
        /\ rooms[c].game.state = "LOBBY"
        /\ rooms[c].game.round = 2
        /\ rooms[c].game.question = 0
        /\ rooms[c].game.prompt = NULL
        /\ \E i \in 1..Len(rooms[c].players) : rooms[c].players[i].score >= 1
        /\ \A i \in 1..Len(rooms[c].players) : ~rooms[c].players[i].ready

(***************************************************************************)
(* Prompts of a round                                                      *)
(***************************************************************************)
\* the prompts presented in each room since its last start round: one more
\* with every new question, none once the room is back in the lobby
ShownLogged ==
    /\ UNCHANGED scoredLog
    /\ shown' = [c \in DOMAIN rooms' |->
          IF c \notin DOMAIN rooms THEN <<>>
          ELSE IF rooms'[c].game.state = "LOBBY" THEN <<>>
          ELSE IF canStartGame(rooms[c]) /\ IsStartGame(c)
          THEN <<rooms'[c].game.prompt>>
          ELSE IF PhaseOf(c) = "SCOREBOARD" /\ rooms'[c].game.state = "ANSWERING"
          THEN Append(shown[c], rooms'[c].game.prompt)
          ELSE shown[c]]

\* the events addressed to the room, with the presented prompts recorded
NextShown ==
    \/ \E theme \in ThemeInputs : createRoom(theme) /\ ShownLogged
    \/ \E s \in SocketIds, name \in NameInputs :
          MayJoin(s) /\ joinRoom(s, KnownCode, name, IdOf[s]) /\ ShownLogged
    \/ \E s \in SocketIds, id \in PlayerIds, ready \in BOOLEAN :
          ReadyOffered(ready) /\ setReady(s, KnownCode, id, ready) /\ ShownLogged
    \/ hostStartGame(KnownCode) /\ ShownLogged
    \/ \E s \in SocketIds, id \in PlayerIds, in \in SubmitInputs :
          submitAnswers(s, KnownCode, id, in.self, in.predicts) /\ ShownLogged
    \/ hostNextReveal(KnownCode) /\ ShownLogged
    \/ hostNextQuestion(KnownCode) /\ ShownLogged
    \/ \E s \in SocketIds : disconnect(s) /\ ShownLogged

SpecShown == Init /\ [][NextShown]_vars

NoDuplicates(seq) ==
    \A i \in 1..Len(seq) : \A j \in 1..Len(seq) : seq[i] = seq[j] => i = j

\* the step puts prompts into the pool of room c that were not in it
IsRefill(c) ==
    /\ rooms'[c].game.promptPool # rooms[c].game.promptPool
    /\ rooms'[c].game.promptPool # <<>>
    /\ \/ rooms[c].game.promptPool = <<>>
       \/ rooms'[c].game.promptPool # Tail(rooms[c].game.promptPool)

\* C29: the prompts presented since a start round are pairwise different,
\* provided questions-per-round does not exceed the number of prompts of the
\* room's theme; every presented prompt is one of the prompts of the room's
\* theme, the prompt on display is the one presented last; and a step after
\* the start round that refills the pool finds it empty and leaves the
\* prompt and the pool as the head and the rest of a shuffle of all prompts
\* of the theme.
C29_NoPromptTwice ==
    /\ [](\A c \in DOMAIN rooms :
            /\ rooms[c].theme \in KnownThemes
            /\ (QUESTIONS_PER_ROUND <= Len(THEMES[rooms[c].theme]))
                  => NoDuplicates(shown[c])
            /\ Range(shown[c]) \subseteq Range(THEMES[rooms[c].theme])
            /\ (rooms[c].game.state # "LOBBY") =>
                  /\ Len(shown[c]) = rooms[c].game.question
                  /\ rooms[c].game.prompt = shown[c][Len(shown[c])])
    /\ [][\A c \in DOMAIN rooms :
            (/\ c \in DOMAIN rooms'
             /\ IsRefill(c)
             /\ ~(canStartGame(rooms[c]) /\ IsStartGame(c))) =>
                /\ rooms[c].game.promptPool = <<>>
                /\ \E pool \in shuffle(THEMES[rooms[c].theme]) :
                      /\ rooms'[c].game.prompt = Head(pool)
                      /\ rooms'[c].game.promptPool = Tail(pool)]_vars

\* the second question of a round is open with another prompt than the first
C29_Witness ==
    \E c \in DOMAIN rooms :
        /\ rooms[c].game.question = 2
        /\ Len(shown[c]) = 2
        /\ shown[c][1] # shown[c][2]
        /\ rooms[c].game.prompt = shown[c][2]

(***************************************************************************)
(* Question counter and round number                                       *)
(***************************************************************************)
\* C30: a room is in LOBBY exactly if its question counter is 0, and in
\* every other phase the counter lies in 1..questions-per-round; no step
\* lowers the round number of a room, and a step that changes it raises it
\* by 1 and is an advance-question taken at the last question.
C30_QuestionAndRound ==
    /\ [](\A c \in DOMAIN rooms :
            /\ (rooms[c].game.state = "LOBBY") <=> (rooms[c].game.question = 0)
            /\ (rooms[c].game.state # "LOBBY") =>
                  rooms[c].game.question \in 1..QUESTIONS_PER_ROUND)
    /\ [][\A c \in DOMAIN rooms \cap DOMAIN rooms' :
            /\ rooms'[c].game.round >= rooms[c].game.round
            /\ (rooms'[c].game.round # rooms[c].game.round) =>
                  /\ rooms'[c].game.round = rooms[c].game.round + 1
                  /\ rooms[c].game.question = QUESTIONS_PER_ROUND
                  /\ IsNextQuestion(c)]_vars

\* the first question of a room's second round is open
C30_Witness ==
    \E c \in DOMAIN rooms :
        /\ rooms[c].game.round = 2
        /\ rooms[c].game.state = "ANSWERING"
        /\ rooms[c].game.question = 1

(***************************************************************************)
(* A player who left without answering                                     *)
(***************************************************************************)
\* the players of the room who are disconnected and have no submission stored
GoneSilent(room) ==
    { id \in IdsOf(room) :
        /\ ~playersGet(room, id).connected
        /\ id \notin DOMAIN room.game.submissions }

SubmitFirst(s) ==
    /\ getRoom(KnownCode) # NULL
    /\ IdOf[s] \notin DOMAIN rooms[getRoom(KnownCode)].game.submissions
    /\ \E in \in SubmitInputs :
          submitAnswers(s, KnownCode, IdOf[s], in.self, in.predicts)
    /\ NoLog

\* SubmitFirst(s) can be taken: the guards of submitAnswers pass for the
\* session's player, who has no submission stored
CanSubmitFirst(s) ==
    /\ getRoom(KnownCode) # NULL
    /\ sockets[s].alive
    /\ rooms[getRoom(KnownCode)].game.state = "ANSWERING"
    /\ playersHas(rooms[getRoom(KnownCode)], IdOf[s])
    /\ playersGet(rooms[getRoom(KnownCode)], IdOf[s]).socketId = s
    /\ IdOf[s] \notin DOMAIN rooms[getRoom(KnownCode)].game.submissions

StartInLobby ==
    /\ getRoom(KnownCode) # NULL
    /\ rooms[getRoom(KnownCode)].game.state = "LOBBY"
    /\ hostStartGame(KnownCode)
    /\ NoLog

NextLive ==
    \/ createRoom("default") /\ NoLog
    \/ \E s \in SocketIds, name \in NameInputs :
          MayJoin(s) /\ joinRoom(s, KnownCode, name, IdOf[s]) /\ NoLog
    \/ \E s \in SocketIds : setReady(s, KnownCode, IdOf[s], TRUE) /\ NoLog
    \/ StartInLobby
    \/ \E s \in SocketIds : SubmitFirst(s)
    \/ \E s \in SocketIds, in \in SubmitInputs :
          submitAnswers(s, KnownCode, IdOf[s], in.self, in.predicts) /\ NoLog
    \/ hostNextReveal(KnownCode) /\ NoLog
    \/ hostNextQuestion(KnownCode) /\ NoLog

\* the claim's premises: a player who has not answered does so (weak
\* fairness of SubmitFirst(s), with its enabling condition written out), and
\* the host sends advance reveal and advance question when they have an
\* effect
SpecLive ==
    /\ Init
    /\ [][NextLive]_vars
    /\ \A s \in SocketIds :
          []<>(~CanSubmitFirst(s)) \/ []<><<SubmitFirst(s)>>_vars
    /\ WF_vars(hostNextReveal(KnownCode) /\ NoLog)
    /\ WF_vars(hostNextQuestion(KnownCode) /\ NoLog)

\* C32: a room that is in a round (any phase but LOBBY) with round number r
\* is eventually in LOBBY with round number r + 1; on the way the question
\* counter only rises by 1 at a time, and the step into LOBBY is an advance
\* question taken at question number questions-per-round.
C32_RoundEnds ==
    /\ \A c \in RoomCodes : \A r \in 1..(MaxRound - 1) :
          (/\ c \in DOMAIN rooms
           /\ rooms[c].game.state # "LOBBY"
           /\ rooms[c].game.round = r)
          ~> (/\ c \in DOMAIN rooms
              /\ rooms[c].game.state = "LOBBY"
              /\ rooms[c].game.round = r + 1)
    /\ [][\A c \in DOMAIN rooms :
            (PhaseOf(c) # "LOBBY" /\ rooms'[c] # rooms[c]) =>
                IF rooms'[c].game.state = "LOBBY"
                THEN /\ rooms[c].game.question = QUESTIONS_PER_ROUND
                     /\ rooms'[c].game.round = rooms[c].game.round + 1
                     /\ IsNextQuestion(c)
                ELSE /\ rooms'[c].game.round = rooms[c].game.round
                     /\ rooms'[c].game.question \in
                           { rooms[c].game.question,
                             rooms[c].game.question + 1 }]_vars

\* a room of three connected players is back in the lobby after its first
\* round
C32_Witness ==
    \E c \in DOMAIN rooms :
        /\ rooms[c].game.state = "LOBBY"
        /\ rooms[c].game.round = 2
        /\ Len(rooms[c].players) = 3
        /\ \A i \in 1..Len(rooms[c].players) : rooms[c].players[i].connected

(***************************************************************************)
(* Players who join while a question is open                               *)
(***************************************************************************)
\* the players of the room who joined after the open question started
LateJoiners(room) == IdsOf(room) \ OrderOf(room)

MaxJoins == 3

SessionCodeInputs == {"roomaa", "roombb"}

\* the number of players created so far
TotalPlayers ==
    LET RECURSIVE Sum(_)
        Sum(S) == IF S = {} THEN 0
                  ELSE LET c == CHOOSE x \in S : TRUE
                       IN  Len(rooms[c].players) + Sum(S \ {c})
    IN  Sum(DOMAIN rooms)

SessionIds == { JoinIdOrder[i] : i \in 1..(MaxJoins + 1) }

NextSession ==
    \/ createRoomIn(TwoRoomCodes, "default") /\ NoLog
    \/ \E s \in JoinSockets, codeIn \in SessionCodeInputs, name \in NameInputs :
          /\ TotalPlayers < MaxJoins
          /\ joinRoom(s, codeIn, name, JoinIdOrder[TotalPlayers + 1])
          /\ NoLog
    \/ \E s \in JoinSockets, codeIn \in SessionCodeInputs, id \in SessionIds,
          ready \in BOOLEAN :
          setReady(s, codeIn, id, ready) /\ NoLog
    \/ \E s \in JoinSockets : disconnect(s) /\ NoLog

SpecSession == Init /\ [][NextSession]_vars

C35_NoOrphanConnected ==
    \A c \in DOMAIN rooms : \A i \in 1..Len(rooms[c].players) :
        ~sockets[rooms[c].players[i].socketId].alive
            => ~rooms[c].players[i].connected

(***************************************************************************)
(* Range of the scores                                                     *)
(***************************************************************************)
\* C36: every player's score is at least 0 and at most questions-per-round
\* times the number of players of the room less one.
C36_ScoreInRange ==
    \A c \in DOMAIN rooms : \A i \in 1..Len(rooms[c].players) :
        /\ rooms[c].players[i].score >= 0
        /\ rooms[c].players[i].score <=
              QUESTIONS_PER_ROUND * (Len(rooms[c].players) - 1)

\* a player of a room of two or more has the highest score the bound allows
C36_Witness ==
    \E c \in DOMAIN rooms :
        /\ Len(rooms[c].players) >= 2
        /\ \E i \in 1..Len(rooms[c].players) :
              rooms[c].players[i].score =
                  QUESTIONS_PER_ROUND * (Len(rooms[c].players) - 1)

====
